---- MODULE Spec2Model ----
(***************************************************************************)
(* Model of the unified Skyflow tokenization service                       *)
(* (src/unnamed/part_002, package main).                                   *)
(*                                                                         *)
(*   SpecDedup   - handleTokenizeValue / completeTokenPromise: the          *)
(*                 in-flight promise registry (inFlightRequests).          *)
(*   SpecInFlight - the same handlers under fair scheduling, with clients  *)
(*                 that may close their connection.                        *)
(*   SpecConfig  - getRoleConfig: the role configuration cache.            *)
(*   SpecResolve - hasRequiredRole as a pure function of its inputs.       *)
(*   SpecCred    - getBearerToken: the bearer token cache.                  *)
(*   SpecBatch   - batchProcessor with the processors of the handlers.      *)
(*   SpecBatchLive - batchProcessor on a goroutine that keeps running.      *)
(*   SpecSize    - getBatchSize for the three batch-size settings.          *)
(*   SpecTable   - handleTokenizeTable / processBatch on a two-column table. *)
(*   SpecRequest - handleRequest: one request, the calls it makes and the    *)
(*                 lines it logs.                                           *)
(*   SpecLocks   - the locks and promises the handlers pass, under fair     *)
(*                 scheduling.                                             *)
(*                                                                         *)
(* Each specification drives its own group of variables and leaves the     *)
(* other groups at their initial value.                                    *)
(***************************************************************************)
EXTENDS Integers, Sequences, FiniteSets, TLC

VARIABLES
    \* ---- request deduplicator (handleTokenizeValue) ----
    value,        \* value[r]: req.Calls[0][0] of request r
    sessionUser,  \* sessionUser[r]: req.SessionUser of request r
    pc,           \* pc[r]: position of request r inside handleTokenizeValue
    registry,     \* inFlightRequests: value -> owner of the stored *tokenPromise
    promise,      \* promise[r]: the tokenPromise allocated by request r
    waitOn,       \* waitOn[r]: the promise (by owner) that LoadOrStore returned
    apiEnv,       \* apiEnv[r]: what the collaborators did in r's makeSkyflowAPIRequest
    pend,         \* pend[r]: the (token, err) the winner passes to completeTokenPromise
    result,       \* result[r]: what handleTokenizeValue returned
    callsBy,      \* callsBy[r]: makeSkyflowAPIRequest invocations made by r
    regOpsBy,     \* regOpsBy[r]: inFlightRequests operations made by r
    gone,         \* requests whose client has closed the connection
    \* ---- role configuration cache (getRoleConfig) ----
    cache,        \* roleConfigCache: [config, timestamp]
    writer,       \* holder of roleConfigCache's write lock
    now,          \* wall clock, in seconds
    alive,        \* FALSE after log.Fatal
    cpc,          \* cpc[t]: position of thread t inside getRoleConfig
    ret,          \* ret[t]: what getRoleConfig returned to t
    data,         \* data[t]: bytes getSecretData returned to t
    loads,        \* number of RoleConfig instances created so far
    fetches,      \* getSecretData calls since the last successful load
    tookLock,     \* tookLock[t]: t acquired the write lock in this call
    fetchedBy,    \* fetchedBy[t]: t called getSecretData in this call
    failedAt,     \* failedAt[t]: the step of the load that failed for t, or "no"
    \* ---- authorization resolver (hasRequiredRole) ----
    rUserRoles,   \* userRoles argument
    rRequired,    \* requiredRoles argument
    rConfig,      \* what getRoleConfig() returned
    rResult,      \* the (roleID, ok) pair returned, or NoResult
    \* ---- credential cache (getBearerToken) ----
    bearerTokenCache, \* sync.Map: cache key -> access token
    mutex,        \* holder of the package mutex
    credentials,  \* the package variable credentials ("nil" until loaded)
    kpc,          \* kpc[t]: position of caller t inside getBearerToken
    kArgs,        \* kArgs[t]: the (userEmail, roleID, userRoles) of t's call
    kKey,         \* kKey[t]: the cache key t computed
    kSnap,        \* kSnap[t]: bearerTokenCache when t took the mutex
    kLast,        \* the call that returned last: arguments, result, cache before and after
    kStored,      \* arguments of the calls that stored a token
    kCalls,       \* getBearerToken calls made so far
    \* ---- batch pipeline (batchProcessor) ----
    bKind,        \* which processor batchProcessor was given
    bItems,       \* items argument
    bArg,         \* batchSize argument as passed
    bSize,        \* the local batchSize
    bpc,          \* position inside batchProcessor
    bI,           \* loop index i
    bResults,     \* results accumulated so far
    bCalls,       \* the batches handed to the processor, in order
    bEnvs,        \* what the collaborator did with each batch
    bOuts,        \* the (results, err) pair each processor call returned
    bApplied,     \* items whose batch the collaborator accepted
    bRet,         \* the (results, err) pair batchProcessor returned
    \* ---- batch-size settings (getBatchSize) ----
    eEnv,         \* the environment: setting of each batch-size variable
    eSizes,       \* the batch size read for each variable, None before the read
    \* ---- table tokenizer (handleTokenizeTable) ----
    tData,        \* bqData: the rows the query returned
    tTable,       \* the warehouse table
    tSkyBatch,    \* skyflowBatchSize
    tBqBatch,     \* bigqueryBatchSize
    tpc,          \* position inside handleTokenizeTable
    tRecords,     \* records
    tI,           \* loop index of the running batchProcessor
    tMaps,        \* columnTokenMaps: column -> (original -> token)
    tSent,        \* the batches sent to the vault, in order
    tColsLeft,    \* columns the loop over columnTokenMaps has not visited
    tColumn,      \* column of the running update loop
    tPairs,       \* pairs of the running update loop
    tUpdates,     \* the UPDATE statements handed to executeUpdate and their outcome
    tRet,         \* the (reply, err) pair handleTokenizeTable returned
    \* ---- one request through handleRequest ----
    hReq,         \* hReq: the request being handled
    hpc,          \* position of the handler
    hTrace,       \* the calls the handler has made, in order
    hLog,         \* the log.Printf calls made, in order
    hStatus,      \* the HTTP status answered
    \* ---- locks of the handlers (roleConfigCache, mutex, inFlightRequests) ----
    xOp,          \* xOp[t]: operation of the request handler t serves
    xpc,          \* xpc[t]: position of handler t
    xConfigCalls, \* xConfigCalls[t]: getRoleConfig calls t has finished
    rwReaders,    \* handlers holding the read lock of roleConfigCache
    rwWriter,     \* handler holding the write lock of roleConfigCache, or None
    xFresh,       \* the cached configuration is younger than roleConfigCacheDuration
    mutexOwner,   \* handler holding mutex, or None
    inFlight,     \* handler whose promise is in inFlightRequests, or None
    closed,       \* handlers whose promise has its done channel closed
    xWaitOn       \* xWaitOn[t]: handler whose promise t received from LoadOrStore

dedupVars == <<value, sessionUser, pc, registry, promise, waitOn, apiEnv, pend, result,
               callsBy, regOpsBy, gone>>
configVars == <<cache, writer, now, alive, cpc, ret, data, loads, fetches,
                tookLock, fetchedBy, failedAt>>
resolveVars == <<rUserRoles, rRequired, rConfig, rResult>>
credVars == <<bearerTokenCache, mutex, credentials, kpc, kArgs, kKey, kSnap, kLast,
              kStored, kCalls>>
batchVars == <<bKind, bItems, bArg, bSize, bpc, bI, bResults, bCalls, bEnvs, bOuts,
               bApplied, bRet>>
sizeVars == <<eEnv, eSizes>>
tableVars == <<tData, tTable, tSkyBatch, tBqBatch, tpc, tRecords, tI, tMaps, tSent,
               tColsLeft, tColumn, tPairs, tUpdates, tRet>>
requestVars == <<hReq, hpc, hTrace, hLog, hStatus>>
lockVars == <<xOp, xpc, xConfigCalls, rwReaders, rwWriter, xFresh, mutexOwner, inFlight,
              closed, xWaitOn>>
vars == <<dedupVars, configVars, resolveVars, credVars, batchVars, sizeVars, tableVars, requestVars, lockVars>>

(***************************************************************************)
(* Bounds                                                                  *)
(***************************************************************************)
NumRequests == 2
NumThreads == 2
MaxTime == 70
ClockStep == 10
MaxUserRoles == 2
MaxMappings == 2
NumCallers == 2
MaxTokenCalls == 2
MaxItems == 10
MaxBatchSize == 3
MaxChunks == 4
MaxSetting == 3
NumHandlers == 2

None == 0
NoResult == <<"none">>

(***************************************************************************)
(* Text.  A Go string is a sequence of pieces; every digit is a piece of   *)
(* its own, and a piece that is not a digit contains no digit.             *)
(***************************************************************************)
RECURSIVE Digits(_)
Digits(n) == IF n < 10 THEN <<ToString(n)>> ELSE Digits(n \div 10) \o <<ToString(n % 10)>>

Contains(s, sub) ==
    \E i \in 1..(Len(s) - Len(sub) + 1) : SubSeq(s, i, i + Len(sub) - 1) = sub

NoErr == <<>>

(***************************************************************************)
(* Request deduplicator: handleTokenizeValue, completeTokenPromise,        *)
(* makeSkyflowAPIRequest                                                   *)
(***************************************************************************)
Reqs == 1..NumRequests
Values == {"", "a", "b"}
Users == {"u1", "u2"}
Tokens == {"t1", "t2"}
StatusCodes == {404, 500}

\* Texts of the errors the collaborators can fail with, and of vault bodies.
Denied == <<"denied">>
GoogleNotFound == <<"googleapi: Error ", "4", "0", "4", ": not found">>
Bodies == { <<"internal">>, <<"upstream ", "4", "0", "4">> }

\* What the collaborators of one makeSkyflowAPIRequest call do.
\* getUserRoles fails, getBearerToken fails, the vault answers with a status
\* other than 200, the body cannot be decoded, or the vault answers 200.
ApiEnvs ==
    { [step |-> "roles", inner |-> GoogleNotFound],
      [step |-> "token", inner |-> Denied],
      [step |-> "decode", inner |-> Denied] }
    \cup [step : {"status"}, code : StatusCodes, body : Bodies]
    \cup [step : {"ok"}, records : {<<>>} \cup {<<t>> : t \in Tokens}]

\* makeSkyflowAPIRequest: (response records, err) for an environment.
makeSkyflowAPIRequest(env) ==
    CASE env.step = "roles"  ->
            [records |-> <<>>, err |-> <<"error getting user roles: ">> \o env.inner]
      [] env.step = "token"  ->
            [records |-> <<>>, err |-> <<"error getting bearer token: ">> \o env.inner]
      [] env.step = "status" ->
            [records |-> <<>>,
             err |-> <<"unexpected status code ">> \o Digits(env.code) \o <<": ">> \o env.body]
      [] env.step = "decode" ->
            [records |-> <<>>, err |-> <<"error unmarshaling response: ">> \o env.inner]
      [] env.step = "ok"     -> [records |-> env.records, err |-> NoErr]

\* The vault answered the tokenize call with status 404.
VaultNotFound(env) == env.step = "status" /\ env.code = 404

\* handleTokenizeValue, lines 600-612: the (token, err) handed to
\* completeTokenPromise for a response of makeSkyflowAPIRequest.
TokenizeOutcome(resp) ==
    IF resp.err # NoErr
    THEN IF Contains(resp.err, <<"4", "0", "4">>)
         THEN <<"", NoErr>>
         ELSE <<"", resp.err>>
    ELSE IF Len(resp.records) = 0
         THEN <<"", <<"no records in response">> >>
         ELSE <<resp.records[1], NoErr>>

IsEmptyValueNever(v) == FALSE
IsEmptyValue(v) == v = ""

LoadedNever(reg, v) == FALSE
\* sync.Map.LoadOrStore: whether the key was present.
Loaded(reg, v) == reg[v] # None

NewPromise == [done |-> FALSE, token |-> "", err |-> NoErr]

WaiterResultOwn(r, p) == <<promise[r].token, promise[r].err>>
\* line 577: the waiter returns the fields of the promise it loaded.
WaiterResult(r, p) == <<promise[p].token, promise[p].err>>

\* A step of a handler leaves the connections and the other components alone.
DedupFrame == UNCHANGED <<gone, configVars, resolveVars, credVars, batchVars, sizeVars, tableVars, requestVars, lockVars>>

InitDedup ==
    /\ value \in [Reqs -> Values]
    /\ sessionUser = [r \in Reqs |-> IF r % 2 = 1 THEN "u1" ELSE "u2"]
    /\ pc = [r \in Reqs |-> "start"]
    /\ registry = [v \in Values |-> None]
    /\ promise = [r \in Reqs |-> NewPromise]
    /\ waitOn = [r \in Reqs |-> None]
    /\ apiEnv = [r \in Reqs |-> [step |-> "none"]]
    /\ pend = [r \in Reqs |-> NoResult]
    /\ result = [r \in Reqs |-> NoResult]
    /\ callsBy = [r \in Reqs |-> 0]
    /\ regOpsBy = [r \in Reqs |-> 0]
    /\ gone = {}

IdleDedup ==
    /\ value = <<>>
    /\ sessionUser = <<>>
    /\ pc = <<>>
    /\ registry = <<>>
    /\ promise = <<>>
    /\ waitOn = <<>>
    /\ apiEnv = <<>>
    /\ pend = <<>>
    /\ result = <<>>
    /\ callsBy = <<>>
    /\ regOpsBy = <<>>
    /\ gone = {}

\* lines 565-567: the empty value is returned unchanged.
ReturnEmpty(r) ==
    /\ pc[r] = "start"
    /\ IsEmptyValue(value[r])
    /\ result' = [result EXCEPT ![r] = <<value[r], NoErr>>]
    /\ pc' = [pc EXCEPT ![r] = "done"]
    /\ UNCHANGED <<value, sessionUser, registry, promise, waitOn, apiEnv, pend, callsBy, regOpsBy>>
    /\ DedupFrame

\* lines 570-572, loaded = false: this request's promise is stored.
InsertPromise(r) ==
    /\ pc[r] = "start"
    /\ ~IsEmptyValue(value[r])
    /\ ~Loaded(registry, value[r])
    /\ registry' = [registry EXCEPT ![value[r]] = r]
    /\ regOpsBy' = [regOpsBy EXCEPT ![r] = @ + 1]
    /\ pc' = [pc EXCEPT ![r] = "calling"]
    /\ UNCHANGED <<value, sessionUser, promise, waitOn, apiEnv, pend, result, callsBy>>
    /\ DedupFrame

JoinPromiseOfSameUser(r) ==
    /\ pc[r] = "start"
    /\ ~IsEmptyValue(value[r])
    /\ Loaded(registry, value[r])
    /\ IF sessionUser[registry[value[r]]] = sessionUser[r]
       THEN /\ waitOn' = [waitOn EXCEPT ![r] = registry[value[r]]]
            /\ pc' = [pc EXCEPT ![r] = "waiting"]
       ELSE /\ pc' = [pc EXCEPT ![r] = "calling"]
            /\ UNCHANGED waitOn
    /\ regOpsBy' = [regOpsBy EXCEPT ![r] = @ + 1]
    /\ UNCHANGED <<value, sessionUser, registry, promise, apiEnv, pend, result, callsBy>>
    /\ DedupFrame
\* lines 570-575, loaded = true: another request's promise is returned.
JoinPromise(r) ==
    /\ pc[r] = "start"
    /\ ~IsEmptyValue(value[r])
    /\ Loaded(registry, value[r])
    /\ waitOn' = [waitOn EXCEPT ![r] = registry[value[r]]]
    /\ regOpsBy' = [regOpsBy EXCEPT ![r] = @ + 1]
    /\ pc' = [pc EXCEPT ![r] = "waiting"]
    /\ UNCHANGED <<value, sessionUser, registry, promise, apiEnv, pend, result, callsBy>>
    /\ DedupFrame

WaiterReturnEarly(r) ==
    /\ pc[r] = "waiting"
    /\ result' = [result EXCEPT ![r] = WaiterResult(r, waitOn[r])]
    /\ pc' = [pc EXCEPT ![r] = "done"]
    /\ UNCHANGED <<value, sessionUser, registry, promise, waitOn, apiEnv, pend, callsBy, regOpsBy>>
    /\ DedupFrame
\* lines 576-577: <-p.done, then return p.token, p.err.
WaiterReturn(r) ==
    /\ pc[r] = "waiting"
    /\ promise[waitOn[r]].done
    /\ result' = [result EXCEPT ![r] = WaiterResult(r, waitOn[r])]
    /\ pc' = [pc EXCEPT ![r] = "done"]
    /\ UNCHANGED <<value, sessionUser, registry, promise, waitOn, apiEnv, pend, callsBy, regOpsBy>>
    /\ DedupFrame

\* line 599: the winner enters makeSkyflowAPIRequest.
CallApi(r) ==
    /\ pc[r] = "calling"
    /\ callsBy' = [callsBy EXCEPT ![r] = @ + 1]
    /\ pc' = [pc EXCEPT ![r] = "inCall"]
    /\ UNCHANGED <<value, sessionUser, registry, promise, waitOn, apiEnv, pend, result, regOpsBy>>
    /\ DedupFrame

ApiReturnSkipsCompletion(r) ==
    /\ pc[r] = "inCall"
    /\ \E env \in ApiEnvs :
          /\ apiEnv' = [apiEnv EXCEPT ![r] = env]
          /\ pend' = [pend EXCEPT ![r] = TokenizeOutcome(makeSkyflowAPIRequest(env))]
          /\ IF env.step = "ok" /\ env.records = <<>>
             THEN /\ pc' = [pc EXCEPT ![r] = "done"]
                  /\ result' = [result EXCEPT ![r] = pend'[r]]
             ELSE /\ pc' = [pc EXCEPT ![r] = "setResult"]
                  /\ UNCHANGED result
    /\ UNCHANGED <<value, sessionUser, registry, promise, waitOn, callsBy, regOpsBy>>
    /\ DedupFrame
\* lines 599-612: makeSkyflowAPIRequest returns and the arguments of
\* completeTokenPromise are chosen.
ApiReturn(r) ==
    /\ pc[r] = "inCall"
    /\ \E env \in ApiEnvs :
          /\ apiEnv' = [apiEnv EXCEPT ![r] = env]
          /\ pend' = [pend EXCEPT ![r] = TokenizeOutcome(makeSkyflowAPIRequest(env))]
    /\ pc' = [pc EXCEPT ![r] = "setResult"]
    /\ UNCHANGED <<value, sessionUser, registry, promise, waitOn, result, callsBy, regOpsBy>>
    /\ DedupFrame

\* completeTokenPromise, lines 1351-1352.
SetResult(r) ==
    /\ pc[r] = "setResult"
    /\ promise' = [promise EXCEPT ![r].token = pend[r][1], ![r].err = pend[r][2]]
    /\ pc' = [pc EXCEPT ![r] = "closeDone"]
    /\ UNCHANGED <<value, sessionUser, registry, waitOn, apiEnv, pend, result, callsBy, regOpsBy>>
    /\ DedupFrame

\* completeTokenPromise, line 1353.
CloseDone(r) ==
    /\ pc[r] = "closeDone"
    /\ promise' = [promise EXCEPT ![r].done = TRUE]
    /\ pc' = [pc EXCEPT ![r] = "deleteEntry"]
    /\ UNCHANGED <<value, sessionUser, registry, waitOn, apiEnv, pend, result, callsBy, regOpsBy>>
    /\ DedupFrame

DeleteEntryOnSuccess(r) ==
    /\ pc[r] = "deleteEntry"
    /\ registry' = IF pend[r][2] = NoErr THEN [registry EXCEPT ![value[r]] = None]
                   ELSE registry
    /\ regOpsBy' = [regOpsBy EXCEPT ![r] = @ + 1]
    /\ result' = [result EXCEPT ![r] = pend[r]]
    /\ pc' = [pc EXCEPT ![r] = "done"]
    /\ UNCHANGED <<value, sessionUser, promise, waitOn, apiEnv, pend, callsBy>>
    /\ DedupFrame
\* completeTokenPromise, lines 1354-1355.
DeleteEntry(r) ==
    /\ pc[r] = "deleteEntry"
    /\ registry' = [registry EXCEPT ![value[r]] = None]
    /\ regOpsBy' = [regOpsBy EXCEPT ![r] = @ + 1]
    /\ result' = [result EXCEPT ![r] = pend[r]]
    /\ pc' = [pc EXCEPT ![r] = "done"]
    /\ UNCHANGED <<value, sessionUser, promise, waitOn, apiEnv, pend, callsBy>>
    /\ DedupFrame

DisconnectCancels(r) ==
    /\ pc[r] \in {"waiting", "calling", "inCall"}
    /\ r \notin gone
    /\ gone' = gone \cup {r}
    /\ pc' = [pc EXCEPT ![r] = "done"]
    /\ UNCHANGED <<value, sessionUser, registry, promise, waitOn, apiEnv, pend, result,
                   callsBy, regOpsBy>>
    /\ UNCHANGED <<configVars, resolveVars, credVars, batchVars, sizeVars, tableVars, requestVars,
                   lockVars>>
\* The client of r closes the connection while r waits on a promise or on
\* the vault.  handleTokenizeValue and makeSkyflowAPIRequest (line 1363,
\* context.Background()) take no context of the request: nothing they do
\* observes the disconnection.
Disconnect(r) ==
    /\ pc[r] \in {"waiting", "calling", "inCall"}
    /\ r \notin gone
    /\ gone' = gone \cup {r}
    /\ UNCHANGED <<value, sessionUser, pc, registry, promise, waitOn, apiEnv, pend, result,
                   callsBy, regOpsBy>>
    /\ UNCHANGED <<configVars, resolveVars, credVars, batchVars, sizeVars, tableVars, requestVars,
                   lockVars>>

NextDedup ==
    \E r \in Reqs :
        \/ ReturnEmpty(r)
        \/ InsertPromise(r)
        \/ JoinPromise(r)
        \/ WaiterReturn(r)
        \/ CallApi(r)
        \/ ApiReturn(r)
        \/ SetResult(r)
        \/ CloseDone(r)
        \/ DeleteEntry(r)

\* One step of the handler goroutine of request r past the empty-value check.
HandlerStep(r) ==
    \/ InsertPromise(r)
    \/ JoinPromise(r)
    \/ WaiterReturn(r)
    \/ CallApi(r)
    \/ ApiReturn(r)
    \/ SetResult(r)
    \/ CloseDone(r)
    \/ DeleteEntry(r)

\* Requests for non-empty values whose clients may go away.
\* The outcomes of the remote call that handleTokenizeValue tells apart
\* (lines 600-612): not found, another error, no record, a token.
InFlightEnvs ==
    { [step |-> "status", code |-> 404, body |-> <<"internal">>],
      [step |-> "status", code |-> 500, body |-> <<"internal">>],
      [step |-> "ok", records |-> <<>>],
      [step |-> "ok", records |-> <<"t1">>] }
HandlerStepOn(r) == HandlerStep(r) /\ apiEnv'[r] \in {apiEnv[r]} \cup InFlightEnvs
NextInFlight == \E r \in Reqs : HandlerStepOn(r) \/ Disconnect(r)

\* Every goroutine that can take a step eventually takes one, and every
\* remote call returns; a client is free to stay connected.
FairHandlers == \A r \in Reqs : WF_vars(HandlerStep(r))


(***************************************************************************)
(* Role configuration cache: getRoleConfig                                 *)
(***************************************************************************)
roleConfigCacheDuration == 30

\* Thread 1 is main; the others are request handlers.
Main == 1
CThreads == 1..(NumThreads + 1)

\* The bytes of the role_mappings secret; "garbage" is not JSON.
SecretData == {"cfgA", "cfgB", "garbage"}
ValidData == {"cfgA", "cfgB"}

\* roleConfigCache.config == nil
NilConfig == [id |-> None, content |-> "nil"]

\* json.Unmarshal(data, &config) succeeds.
UnmarshalOk(d) == d \in ValidData

IsFreshInverted(c, n) == c.config # NilConfig /\ n - c.timestamp > roleConfigCacheDuration
\* lines 236 and 249: config != nil && time.Since(timestamp) < duration
IsFresh(c, n) == c.config # NilConfig /\ n - c.timestamp < roleConfigCacheDuration

DoubleCheckSkipped(c, n) == FALSE
\* line 249: the check repeated under the write lock.
DoubleCheck(c, n) == IsFresh(c, n)

FailureOutcomeFatal(c) == "fatal"
FailureOutcomeStale(c) == "stale"
\* lines 258-262, 269-273, 279-283: serve the stale config, or log.Fatal.
FailureOutcome(c) == IF c.config # NilConfig THEN "stale" ELSE "fatal"

\* main returned from its getRoleConfig call and the server is listening.
Started(t) == t = Main \/ cpc[Main] = "done"

ConfigFrame == UNCHANGED <<dedupVars, resolveVars, credVars, batchVars, sizeVars, tableVars, requestVars, lockVars>>

InitConfig ==
    /\ cache = [config |-> NilConfig, timestamp |-> 0]
    /\ writer = None
    /\ now = 0
    /\ alive = TRUE
    /\ cpc = [t \in CThreads |-> "start"]
    /\ ret = [t \in CThreads |-> NilConfig]
    /\ data = [t \in CThreads |-> "none"]
    /\ loads = 0
    /\ fetches = 0
    /\ tookLock = [t \in CThreads |-> FALSE]
    /\ fetchedBy = [t \in CThreads |-> FALSE]
    /\ failedAt = [t \in CThreads |-> "no"]

\* lines 235-240: fresh under the read lock.
ReadFresh(t) ==
    /\ alive /\ Started(t)
    /\ cpc[t] = "start"
    /\ writer = None
    /\ IsFresh(cache, now)
    /\ ret' = [ret EXCEPT ![t] = cache.config]
    /\ cpc' = [cpc EXCEPT ![t] = "logAge"]
    /\ UNCHANGED <<cache, writer, now, alive, data, loads, fetches, tookLock, fetchedBy, failedAt>>
    /\ ConfigFrame

\* lines 235-242: missing or expired under the read lock.
ReadStale(t) ==
    /\ alive /\ Started(t)
    /\ cpc[t] = "start"
    /\ writer = None
    /\ ~IsFresh(cache, now)
    /\ cpc' = [cpc EXCEPT ![t] = "wantLock"]
    /\ UNCHANGED <<cache, writer, now, alive, ret, data, loads, fetches, tookLock, fetchedBy, failedAt>>
    /\ ConfigFrame

\* lines 239-240: the age is logged after RUnlock, then the config returned.
LogAge(t) ==
    /\ alive
    /\ cpc[t] = "logAge"
    /\ cpc' = [cpc EXCEPT ![t] = "done"]
    /\ UNCHANGED <<cache, writer, now, alive, ret, data, loads, fetches, tookLock, fetchedBy, failedAt>>
    /\ ConfigFrame

\* line 245: roleConfigCache.Lock()
AcquireLock(t) ==
    /\ alive
    /\ cpc[t] = "wantLock"
    /\ writer = None
    /\ writer' = t
    /\ tookLock' = [tookLock EXCEPT ![t] = TRUE]
    /\ cpc' = [cpc EXCEPT ![t] = "doubleCheck"]
    /\ UNCHANGED <<cache, now, alive, ret, data, loads, fetches, fetchedBy, failedAt>>
    /\ ConfigFrame

\* lines 249-252: fresh after all; return it (the deferred Unlock runs).
DoubleCheckFresh(t) ==
    /\ alive
    /\ cpc[t] = "doubleCheck"
    /\ DoubleCheck(cache, now)
    /\ ret' = [ret EXCEPT ![t] = cache.config]
    /\ writer' = None
    /\ cpc' = [cpc EXCEPT ![t] = "done"]
    /\ UNCHANGED <<cache, now, alive, data, loads, fetches, tookLock, fetchedBy, failedAt>>
    /\ ConfigFrame

\* lines 249-254: still missing or expired.
DoubleCheckStale(t) ==
    /\ alive
    /\ cpc[t] = "doubleCheck"
    /\ ~DoubleCheck(cache, now)
    /\ cpc' = [cpc EXCEPT ![t] = "newSM"]
    /\ UNCHANGED <<cache, writer, now, alive, ret, data, loads, fetches, tookLock, fetchedBy, failedAt>>
    /\ ConfigFrame

\* The three failure branches: return the stale config, or log.Fatal.
Fail(t, step) ==
    /\ failedAt' = [failedAt EXCEPT ![t] = step]
    /\ IF FailureOutcome(cache) = "stale"
       THEN /\ ret' = [ret EXCEPT ![t] = cache.config]
            /\ writer' = None
            /\ cpc' = [cpc EXCEPT ![t] = "done"]
            /\ alive' = alive
       ELSE /\ alive' = FALSE
            /\ cpc' = [cpc EXCEPT ![t] = "fatal"]
            /\ UNCHANGED <<ret, writer>>

\* line 255, err == nil
NewSecretManagerOk(t) ==
    /\ alive
    /\ cpc[t] = "newSM"
    /\ cpc' = [cpc EXCEPT ![t] = "getSecret"]
    /\ UNCHANGED <<cache, writer, now, alive, ret, data, loads, fetches, tookLock, fetchedBy, failedAt>>
    /\ ConfigFrame

\* lines 255-263, err != nil
NewSecretManagerFail(t) ==
    /\ alive
    /\ cpc[t] = "newSM"
    /\ Fail(t, "client")
    /\ UNCHANGED <<cache, now, data, loads, fetches, tookLock, fetchedBy>>
    /\ ConfigFrame

\* line 266, err == nil
GetSecretOk(t) ==
    /\ alive
    /\ cpc[t] = "getSecret"
    /\ \E d \in SecretData : data' = [data EXCEPT ![t] = d]
    /\ fetches' = fetches + 1
    /\ fetchedBy' = [fetchedBy EXCEPT ![t] = TRUE]
    /\ cpc' = [cpc EXCEPT ![t] = "unmarshal"]
    /\ UNCHANGED <<cache, writer, now, alive, ret, loads, tookLock, failedAt>>
    /\ ConfigFrame

\* lines 266-274, err != nil
GetSecretFail(t) ==
    /\ alive
    /\ cpc[t] = "getSecret"
    /\ fetches' = fetches + 1
    /\ fetchedBy' = [fetchedBy EXCEPT ![t] = TRUE]
    /\ Fail(t, "fetch")
    /\ UNCHANGED <<cache, now, data, loads, tookLock>>
    /\ ConfigFrame

\* lines 276-284, err != nil
UnmarshalFail(t) ==
    /\ alive
    /\ cpc[t] = "unmarshal"
    /\ ~UnmarshalOk(data[t])
    /\ Fail(t, "parse")
    /\ UNCHANGED <<cache, now, data, loads, fetches, tookLock, fetchedBy>>
    /\ ConfigFrame

UpdateCacheInPlace(t) ==
    /\ alive
    /\ cpc[t] = "unmarshal"
    /\ UnmarshalOk(data[t])
    /\ LET config == [id |-> IF cache.config = NilConfig THEN loads + 1 ELSE cache.config.id,
                      content |-> data[t]] IN
          /\ cache' = [config |-> config, timestamp |-> now]
          /\ ret' = [ret EXCEPT ![t] = config]
    /\ loads' = loads + 1
    /\ fetches' = 0
    /\ writer' = None
    /\ cpc' = [cpc EXCEPT ![t] = "done"]
    /\ UNCHANGED <<now, alive, data, tookLock, fetchedBy, failedAt>>
    /\ ConfigFrame
\* lines 276-296: a new RoleConfig is stored, stamped with time.Now(), returned.
UpdateCache(t) ==
    /\ alive
    /\ cpc[t] = "unmarshal"
    /\ UnmarshalOk(data[t])
    /\ LET config == [id |-> loads + 1, content |-> data[t]] IN
          /\ cache' = [config |-> config, timestamp |-> now]
          /\ ret' = [ret EXCEPT ![t] = config]
    /\ loads' = loads + 1
    /\ fetches' = 0
    /\ writer' = None
    /\ cpc' = [cpc EXCEPT ![t] = "done"]
    /\ UNCHANGED <<now, alive, data, tookLock, fetchedBy, failedAt>>
    /\ ConfigFrame

\* Time passes.
Tick ==
    /\ alive
    /\ now + ClockStep <= MaxTime
    /\ now' = now + ClockStep
    /\ UNCHANGED <<cache, writer, alive, cpc, ret, data, loads, fetches, tookLock, fetchedBy, failedAt>>
    /\ ConfigFrame

NextConfig ==
    \/ Tick
    \/ \E t \in CThreads :
        \/ ReadFresh(t)
        \/ ReadStale(t)
        \/ LogAge(t)
        \/ AcquireLock(t)
        \/ DoubleCheckFresh(t)
        \/ DoubleCheckStale(t)
        \/ NewSecretManagerOk(t)
        \/ NewSecretManagerFail(t)
        \/ GetSecretOk(t)
        \/ GetSecretFail(t)
        \/ UnmarshalFail(t)
        \/ UpdateCache(t)

(***************************************************************************)
(* Properties of the request deduplicator (checked under SpecDedup)        *)
(***************************************************************************)
RECURSIVE SumCalls(_)
SumCalls(S) ==
    IF S = {} THEN 0
    ELSE LET r == CHOOSE x \in S : TRUE IN callsBy[r] + SumCalls(S \ {r})

SameValue(v) == {r \in Reqs : value[r] = v}
InFlight == {"calling", "inCall", "setResult", "closeDone", "deleteEntry"}
Completing == {"setResult", "closeDone", "deleteEntry", "done"}

\* C1 (as stated): once all of N >= 2 requests carrying the same non-empty
\* value have returned, exactly one makeSkyflowAPIRequest call was made for
\* that value and all of them returned the same (token, err) pair.
C1_ExactlyOneCallForAll ==
    \A v \in Values \ {""} :
        (Cardinality(SameValue(v)) >= 2 /\ \A r \in SameValue(v) : pc[r] = "done")
        => /\ SumCalls(SameValue(v)) = 1
           /\ \A r1, r2 \in SameValue(v) : result[r1] = result[r2]

\* C1 (amended): a request for a non-empty value that finds a promise in the
\* registry makes no remote call and returns exactly the (token, err) pair of
\* the request owning that promise, which made exactly one remote call for
\* the same value; a request that finds no promise makes exactly one call.
C1_WaitersShareWinnerResult ==
    \A r \in Reqs :
        (pc[r] = "done" /\ value[r] # "")
        => IF waitOn[r] # None
           THEN /\ callsBy[r] = 0
                /\ value[waitOn[r]] = value[r]
                /\ callsBy[waitOn[r]] = 1
                /\ result[r] = pend[waitOn[r]]
                /\ (pc[waitOn[r]] = "done" => result[r] = result[waitOn[r]])
           ELSE callsBy[r] = 1

\* C1 witness: a waiter and the winner it waited on have both returned a token.
C1_Witness ==
    \E r \in Reqs :
        /\ pc[r] = "done"
        /\ waitOn[r] # None
        /\ pc[waitOn[r]] = "done"
        /\ result[r][1] \in Tokens

\* C2: for every value at most one request owns a registered promise and at
\* most one remote call is in progress; the registry holds an entry for the
\* value exactly while its owner is between the insert and the removal, and
\* the owner makes exactly one remote call.
C2_OnePromisePerValue ==
    \A v \in Values :
        LET owners == {r \in SameValue(v) : pc[r] \in InFlight} IN
        /\ Cardinality(owners) <= 1
        /\ Cardinality({r \in SameValue(v) : pc[r] = "inCall"}) <= 1
        /\ (registry[v] # None <=> owners # {})
        /\ (registry[v] # None => registry[v] \in owners)
        /\ \A r \in owners : callsBy[r] = (IF pc[r] = "calling" THEN 0 ELSE 1)

\* C2 witness: a request waits on the registered promise of a request whose
\* remote call is in progress.
C2_Witness ==
    \E r \in Reqs :
        /\ pc[r] = "waiting"
        /\ registry[value[r]] = waitOn[r]
        /\ pc[waitOn[r]] = "inCall"

\* C3: a request with the empty value returns ("", nil), makes no remote
\* call and performs no operation on the in-flight registry.
C3_EmptyValueShortCircuits ==
    \A r \in Reqs :
        value[r] = ""
        => /\ pc[r] \in {"start", "done"}
           /\ callsBy[r] = 0
           /\ regOpsBy[r] = 0
           /\ registry[""] = None
           /\ (pc[r] = "done" => result[r] = <<"", NoErr>>)

\* C3 witness: an empty-value request has returned while another request's
\* remote call is in progress.
C3_Witness ==
    \E r, q \in Reqs : value[r] = "" /\ pc[r] = "done" /\ pc[q] = "inCall"

\* C4: a vault 404 gives the winner and its waiters the empty token and no
\* error; every other failure of the remote call (roles or credential
\* failure, other status, undecodable body, no records) gives them a
\* non-nil error.
C4_OnlyNotFoundIsSuccess ==
    \A r \in Reqs :
        pc[r] \in Completing /\ waitOn[r] = None /\ value[r] # ""
        => /\ (VaultNotFound(apiEnv[r]) => pend[r] = <<"", NoErr>>)
           /\ (apiEnv[r].step # "ok" /\ ~VaultNotFound(apiEnv[r]) => pend[r][2] # NoErr)
           /\ (apiEnv[r].step = "ok" /\ apiEnv[r].records = <<>> => pend[r][2] # NoErr)
           /\ \A w \in Reqs : pc[w] = "done" /\ waitOn[w] = r => result[w] = pend[r]

(***************************************************************************)
(* Properties of the role configuration cache (checked under SpecConfig)   *)
(***************************************************************************)
\* C5: a getRoleConfig call that makes its read-locked check less than 30
\* seconds after the last successful load returns the config instance that
\* load stored, fetches nothing from the secret store and never takes the
\* write lock.
C5_FreshReadReturnsCached ==
    /\ [][\A t \in CThreads :
            (/\ cpc[t] = "start" /\ cpc'[t] # "start"
             /\ cache.config # NilConfig
             /\ now - cache.timestamp < roleConfigCacheDuration)
            => /\ ret'[t] = cache.config
               /\ cpc'[t] = "logAge"
               /\ cache' = cache
               /\ writer' = writer
               /\ fetches' = fetches]_vars
    /\ [](\A t \in CThreads :
            cpc[t] = "logAge" => ~tookLock[t] /\ ~fetchedBy[t] /\ ret[t] # NilConfig)
    /\ [][\A t \in CThreads :
            cpc[t] = "logAge" /\ cpc'[t] # "logAge"
            => cpc'[t] = "done" /\ ret'[t] = ret[t] /\ ~tookLock'[t] /\ ~fetchedBy'[t]]_vars

\* C5 witness: a request handler returns the cached config some time after
\* it was loaded.
C5_Witness ==
    \E t \in CThreads \ {Main} :
        /\ cpc[t] = "logAge"
        /\ ret[t] = cache.config
        /\ now - cache.timestamp > 0
        /\ now - cache.timestamp < roleConfigCacheDuration

\* C6 (as stated): within one expiry window (since the last successful load)
\* at most one secret-store fetch is made, whatever the number of callers.
C6_OneFetchPerWindow == fetches <= 1

\* C6 (amended): the cache is replaced only when it is missing or at least
\* 30 seconds old, so one expiry window sees at most one successful reload;
\* a caller whose check under the write lock finds the cache fresh returns
\* the newly loaded config without fetching; a fetch is made only by the
\* holder of the write lock.
C6_SingleReloadPerWindow ==
    /\ [][cache' # cache
          => /\ (cache.config = NilConfig \/ now - cache.timestamp >= roleConfigCacheDuration)
             /\ loads' = loads + 1
             /\ cache'.timestamp = now]_vars
    /\ [][\A t \in CThreads :
            (/\ cpc[t] = "doubleCheck" /\ cpc'[t] # "doubleCheck"
             /\ cache.config # NilConfig
             /\ now - cache.timestamp < roleConfigCacheDuration)
            => /\ cpc'[t] = "done"
               /\ ret'[t] = cache.config
               /\ ~fetchedBy'[t]
               /\ fetches' = fetches
               /\ cache' = cache]_vars
    /\ [][fetches' # fetches /\ fetches' # 0
          => \E t \in CThreads : writer = t /\ cpc[t] = "getSecret"]_vars

\* C6 witness: two request handlers found the cache expired; one reloaded it,
\* the other took the write lock afterwards and returned the new config
\* without fetching.
C6_Witness ==
    \E t, u \in CThreads \ {Main} :
        /\ t # u
        /\ cpc[t] = "done" /\ tookLock[t] /\ ~fetchedBy[t] /\ failedAt[t] = "no"
        /\ cpc[u] = "done" /\ fetchedBy[u] /\ failedAt[u] = "no"
        /\ ret[t] = cache.config /\ ret[u] = cache.config

\* C7: when a config has been loaded before and a refresh fails at any step
\* (client creation, fetch, parse), the call returns the previously loaded
\* config, the process stays alive, and config and timestamp are unchanged.
C7_StaleServedOnFailure ==
    [][\A t \in CThreads :
         (failedAt[t] = "no" /\ failedAt'[t] # "no" /\ cache.config # NilConfig)
         => /\ cpc'[t] = "done"
            /\ ret'[t] = cache.config
            /\ cache' = cache
            /\ alive']_vars

\* C7 witness: a request handler's refresh failed at the parse step and it
\* returned the expired config.
C7_Witness ==
    \E t \in CThreads \ {Main} :
        /\ failedAt[t] = "parse"
        /\ cpc[t] = "done"
        /\ ret[t] = cache.config
        /\ now - cache.timestamp >= roleConfigCacheDuration

\* C8: getRoleConfig never returns nil: a failed load with no config ever
\* loaded terminates the process, and request handlers run only with a
\* config in the cache.
C8_NeverReturnsNil ==
    /\ \A t \in CThreads : cpc[t] \in {"logAge", "done"} => ret[t] # NilConfig
    /\ (\E t \in CThreads \ {Main} : cpc[t] # "start") => cache.config # NilConfig
    /\ (~alive => /\ cpc[Main] = "fatal"
                  /\ cache.config = NilConfig
                  /\ \A t \in CThreads \ {Main} : cpc[t] = "start")
    /\ \A t \in CThreads :
          (failedAt[t] # "no" /\ ret[t] = NilConfig) => (~alive /\ cpc[t] = "fatal")

\* C8 witness: the initial load failed and the process terminated.
C8_Witness == ~alive /\ failedAt[Main] = "fetch" /\ cpc[Main] = "fatal"

(***************************************************************************)
(* Authorization resolver: hasRequiredRole                                 *)
(***************************************************************************)
Roles == {"g1", "g2", "gX", "G1"}
SkyflowRoleIDs == {"A", "B"}
DefaultRoleIDs == {"D"}

\* GoogleRoles lists of a RoleMapping, and requiredRoles lists.
GoogleRoleLists == { <<>>, <<"g1">>, <<"g2">>, <<"g1", "g2">> }
RequiredLists == { <<>>, <<"g1">>, <<"gX">>, <<"g2", "g1">> }

SeqsUpTo(S, n) == UNION {[1..k -> S] : k \in 0..n}

RoleMappings == [SkyflowRoleID : SkyflowRoleIDs, GoogleRoles : GoogleRoleLists]
RoleConfigs == [DefaultRoleID : DefaultRoleIDs, RoleMappings : SeqsUpTo(RoleMappings, MaxMappings)]

\* strings.EqualFold on the role names of the model.
FoldCase(role) == IF role = "G1" THEN "g1" ELSE role

InListEqualFold(list, x) == \E k \in 1..Len(list) : FoldCase(list[k]) = FoldCase(x)
\* lines 421-426 and 440-444: some googleRole == userRole; lines 436-437.
InList(list, x) == \E k \in 1..Len(list) : list[k] = x

\* lines 419-427 and 439-445: the index of the first mapping, from j on, whose
\* GoogleRoles list holds the role; 0 when the loop ends without a match.
RECURSIVE MappingIndex(_, _, _)
MappingIndex(mappings, userRole, j) ==
    IF j > Len(mappings) THEN 0
    ELSE IF InList(mappings[j].GoogleRoles, userRole) THEN j
    ELSE MappingIndex(mappings, userRole, j + 1)

\* The loops nested the other way round: mappings outside, user roles inside.
MapUserRolesMappingFirst(userRoles, config, i) ==
    LET hits == {j \in 1..Len(config.RoleMappings) :
                    \E k \in 1..Len(userRoles) :
                        InList(config.RoleMappings[j].GoogleRoles, userRoles[k])}
    IN IF hits = {} THEN <<config.DefaultRoleID, TRUE>>
       ELSE <<config.RoleMappings[CHOOSE j \in hits : \A h \in hits : j <= h].SkyflowRoleID, TRUE>>

\* lines 413-432: no role required; map the user's roles, from the i-th on.
RECURSIVE MapUserRoles(_, _, _)
MapUserRoles(userRoles, config, i) ==
    IF i > Len(userRoles) THEN <<config.DefaultRoleID, TRUE>>
    ELSE LET j == MappingIndex(config.RoleMappings, userRoles[i], 1) IN
         IF j # 0 THEN <<config.RoleMappings[j].SkyflowRoleID, TRUE>>
         ELSE MapUserRoles(userRoles, config, i + 1)

\* The required roles are not looked at.
CheckRequiredIgnored(userRoles, requiredRoles, config, i) == MapUserRoles(userRoles, config, i)

\* lines 434-455: some role is required; check the user's roles, from the i-th on.
RECURSIVE CheckRequired(_, _, _, _)
CheckRequired(userRoles, requiredRoles, config, i) ==
    IF i > Len(userRoles) THEN <<config.DefaultRoleID, FALSE>>
    ELSE IF InList(requiredRoles, userRoles[i])
         THEN LET j == MappingIndex(config.RoleMappings, userRoles[i], 1) IN
              IF j # 0 THEN <<config.RoleMappings[j].SkyflowRoleID, TRUE>>
              ELSE <<config.DefaultRoleID, TRUE>>
         ELSE CheckRequired(userRoles, requiredRoles, config, i + 1)

\* lines 409-456
hasRequiredRole(userRoles, requiredRoles, config) ==
    IF Len(requiredRoles) = 0
    THEN MapUserRoles(userRoles, config, 1)
    ELSE CheckRequired(userRoles, requiredRoles, config, 1)

ResolveFrame == UNCHANGED <<dedupVars, configVars, credVars, batchVars, sizeVars, tableVars, requestVars, lockVars>>

InitResolve ==
    /\ rUserRoles \in SeqsUpTo(Roles, MaxUserRoles)
    /\ rRequired \in RequiredLists
    /\ rConfig \in RoleConfigs
    /\ rResult = NoResult

\* hasRequiredRole is called and returns.
Resolve ==
    /\ rResult = NoResult
    /\ rResult' = hasRequiredRole(rUserRoles, rRequired, rConfig)
    /\ UNCHANGED <<rUserRoles, rRequired, rConfig>>
    /\ ResolveFrame

NextResolve == Resolve

(***************************************************************************)
(* Properties of the authorization resolver (checked under SpecResolve)    *)
(***************************************************************************)
Range(list) == {list[k] : k \in 1..Len(list)}
MinOf(S) == CHOOSE x \in S : \A y \in S : x <= y

\* The mappings of the config, by index, whose external roles hold the role.
MappingsOf(config, role) ==
    {j \in 1..Len(config.RoleMappings) : role \in Range(config.RoleMappings[j].GoogleRoles)}

\* The internal role of a caller role: its earliest mapping, or the default.
InternalRoleOf(config, role) ==
    IF MappingsOf(config, role) = {} THEN config.DefaultRoleID
    ELSE config.RoleMappings[MinOf(MappingsOf(config, role))].SkyflowRoleID

ExampleConfig ==
    [DefaultRoleID |-> "D",
     RoleMappings |-> << [SkyflowRoleID |-> "A", GoogleRoles |-> <<"g1">>] >>]

\* C9: with no required role the caller is always authorized; the internal
\* role is that of the first mapping (config order) holding the first caller
\* role (caller order) that some mapping holds, and the default role when no
\* caller role is mapped; resolve({g1},{}) = (A,true), resolve({gX},{}) = (D,true).
C9_OpenOperationMapsFirstMappedRole ==
    (rResult # NoResult /\ rRequired = <<>>)
    => LET mapped == {i \in 1..Len(rUserRoles) : MappingsOf(rConfig, rUserRoles[i]) # {}} IN
       /\ rResult[2] = TRUE
       /\ rResult[1] = IF mapped = {} THEN rConfig.DefaultRoleID
                       ELSE InternalRoleOf(rConfig, rUserRoles[MinOf(mapped)])
       /\ (rConfig = ExampleConfig /\ rUserRoles = <<"g1">> => rResult = <<"A", TRUE>>)
       /\ (rConfig = ExampleConfig /\ rUserRoles = <<"gX">> => rResult = <<"D", TRUE>>)

\* C9 witness: the first caller role is unmapped, the second is held by the
\* second mapping only, and that mapping's role is returned.
C9_Witness ==
    /\ rResult # NoResult /\ rRequired = <<>>
    /\ Len(rUserRoles) = 2
    /\ MappingsOf(rConfig, rUserRoles[1]) = {}
    /\ MappingsOf(rConfig, rUserRoles[2]) = {2}
    /\ rConfig.RoleMappings[1].SkyflowRoleID # rConfig.RoleMappings[2].SkyflowRoleID
    /\ rResult = <<rConfig.RoleMappings[2].SkyflowRoleID, TRUE>>

\* C10: with required roles the caller is authorized iff one of its roles is
\* required; then the internal role is that of the first such caller role, or
\* the default role when it has no mapping; otherwise the result is
\* (default, false); resolve({gX},{g1}) = (D,false).
C10_RequiredRolesIntersect ==
    (rResult # NoResult /\ rRequired # <<>>)
    => LET hits == {i \in 1..Len(rUserRoles) : rUserRoles[i] \in Range(rRequired)} IN
       /\ (rResult[2] = TRUE <=> hits # {})
       /\ (hits = {} => rResult = <<rConfig.DefaultRoleID, FALSE>>)
       /\ (hits # {} => rResult[1] = InternalRoleOf(rConfig, rUserRoles[MinOf(hits)]))
       /\ (rConfig = ExampleConfig /\ rUserRoles = <<"gX">> /\ rRequired = <<"g1">>
             => rResult = <<"D", FALSE>>)

\* C10 witness: the first caller role is mapped but not required, the second
\* is required but unmapped: authorized with the default role.
C10_Witness ==
    /\ rResult # NoResult /\ rRequired # <<>>
    /\ Len(rUserRoles) = 2
    /\ rUserRoles[1] \notin Range(rRequired)
    /\ MappingsOf(rConfig, rUserRoles[1]) # {}
    /\ rUserRoles[2] \in Range(rRequired)
    /\ MappingsOf(rConfig, rUserRoles[2]) = {}
    /\ rResult = <<rConfig.DefaultRoleID, TRUE>>

(***************************************************************************)
(* Credential cache: getBearerToken (lines 918-1009).                      *)
(* The texts that make up a cache key are sequences of characters, so two  *)
(* keys are equal exactly when the strings Go builds are equal.            *)
(***************************************************************************)
Callers == 1..NumCallers
G1 == <<"g", "1">>
G2 == <<"g", "2">>
\* The (userEmail, roleID, userRoles) triples the callers pass.
TokenArgs ==
    { [userEmail |-> <<"u", "1">>, roleID |-> <<>>, userRoles |-> <<G1>>],
      [userEmail |-> <<"u", "1">>, roleID |-> <<"A">>, userRoles |-> <<G1>>],
      [userEmail |-> <<"u", "1">>, roleID |-> <<"A">>, userRoles |-> <<G1, G2>>],
      [userEmail |-> <<"u", "1">>, roleID |-> <<"A">>, userRoles |-> <<G2, G1>>],
      [userEmail |-> <<"u", "2">>, roleID |-> <<"A">>, userRoles |-> <<G1, G2>>],
      [userEmail |-> <<"A", ":", "u", "1", ":", "g", "1">>, roleID |-> <<>>,
       userRoles |-> <<>>] }
AccessTokens == {"tk1", "tk2"}

\* strings.Join(elems, sep)
RECURSIVE Join(_, _)
Join(elems, sep) ==
    IF elems = <<>> THEN <<>>
    ELSE IF Len(elems) = 1 THEN elems[1]
    ELSE elems[1] \o sep \o Join(Tail(elems), sep)

\* lines 922-927: the roles are joined in the order the caller passes them.
CacheKey(userEmail, roleID, userRoles) ==
    LET rolesStr == Join(userRoles, <<",">>)
    IN  IF roleID # <<>>
        THEN roleID \o <<":">> \o userEmail \o <<":">> \o rolesStr
        ELSE userEmail

CacheHitNever(c, key) == FALSE
\* line 931: bearerTokenCache.Load(key)
CacheHit(c, key) == key \in DOMAIN c

\* line 1006: bearerTokenCache.Store(key, accessToken)
Store(c, key, token) ==
    [k \in DOMAIN c \cup {key} |-> IF k = key THEN token ELSE c[k]]

\* What Secret Manager does when getCredentials has to load the secret.
CredentialEnvs ==
    { [step |-> "newSecretManager"], [step |-> "getSecretData"], [step |-> "unmarshal"],
      [step |-> "ok", creds |-> "good"], [step |-> "ok", creds |-> "badkey"] }

\* lines 1064-1087: the (credentials, err) pair getCredentials returns.
getCredentials(cur, env) ==
    IF cur # "nil" THEN <<cur, NoErr>>
    ELSE IF env.step = "ok" THEN <<env.creds, NoErr>>
    ELSE <<"nil", <<"credentials: ", env.step>>>>

\* lines 1101-1168: signing fails when the private key does not parse.
generateJWTToken(creds) ==
    IF creds = "badkey"
    THEN <<"", <<"failed to parse PEM block containing the private key">>>>
    ELSE <<"jwt", NoErr>>

\* What the token endpoint does: the request cannot be built or sent, the
\* body cannot be read, or a response arrives with a status and a body.
NoToken == "<absent>"
ExchangeEnvs ==
    { [step |-> "NewRequest"], [step |-> "Do"], [step |-> "ReadAll"] }
    \cup { [step |-> "resp", status |-> 500, json |-> TRUE, accessToken |-> "tk1"],
           [step |-> "resp", status |-> 200, json |-> FALSE, accessToken |-> NoToken],
           [step |-> "resp", status |-> 200, json |-> TRUE, accessToken |-> NoToken],
           [step |-> "resp", status |-> 200, json |-> TRUE, accessToken |-> ""] }
    \cup { [step |-> "resp", status |-> 200, json |-> TRUE, accessToken |-> a] :
             a \in AccessTokens }

\* lines 964-1008: the (token, err) pair the exchange produces.
ExchangeOutcome(env) ==
    IF env.step # "resp" THEN <<"", <<"http: ", env.step>>>>
    ELSE IF env.status # 200 THEN <<"", <<"failed to get bearer token: ">>>>
    ELSE IF ~env.json THEN <<"", <<"invalid character">>>>
    ELSE IF env.accessToken = NoToken \/ env.accessToken = ""
         THEN <<"", <<"no accessToken in response">>>>
    ELSE <<env.accessToken, NoErr>>

StoresTokenUnchecked(env) == env.step = "resp" /\ env.status = 200 /\ env.json
\* lines 999-1006: Store is reached only after every check has passed.
StoresToken(env) == ExchangeOutcome(env)[2] = NoErr

CredFrame == UNCHANGED <<dedupVars, configVars, resolveVars, batchVars, sizeVars, tableVars, requestVars, lockVars>>

NoCall == [caller |-> None]

\* The record of a call that has returned: its arguments, (token, err) pair,
\* the cache it found when it took the mutex and the cache it left, the
\* callers that were waiting for the mutex when it returned and, when this
\* call was itself waiting while a call with the same key returned just
\* before it, the token that call returned and whether it stored it.
Returned(t, out, exchanged, after) ==
    [caller |-> t, args |-> kArgs[t], key |-> kKey[t], ret |-> out,
     exchanged |-> exchanged, snap |-> kSnap[t], after |-> after,
     queued |-> {u \in Callers \ {t} : kpc[u] = "lock"},
     pred |-> IF kLast # NoCall /\ t \in kLast.queued /\ kLast.key = kKey[t]
              THEN [caller |-> kLast.caller, token |-> kLast.ret[1],
                    stored |-> kLast.after # kLast.snap]
              ELSE NoCall]

InitCred ==
    /\ bearerTokenCache = <<>>
    /\ mutex = None
    /\ credentials = "nil"
    /\ kpc = [t \in Callers |-> "idle"]
    /\ kArgs = [t \in Callers |-> <<>>]
    /\ kKey = [t \in Callers |-> <<>>]
    /\ kSnap = [t \in Callers |-> <<>>]
    /\ kLast = NoCall
    /\ kStored = {}
    /\ kCalls = 0

\* A caller invokes getBearerToken and waits for the mutex.
CallGetBearerToken(t) ==
    /\ kpc[t] = "idle"
    /\ kCalls < MaxTokenCalls
    /\ kpc' = [kpc EXCEPT ![t] = "lock"]
    /\ kCalls' = kCalls + 1
    /\ UNCHANGED <<bearerTokenCache, mutex, credentials, kArgs, kKey, kSnap, kLast, kStored>>
    /\ CredFrame

LockMutexNoWait(t) ==
    /\ kpc[t] = "lock"
    /\ mutex' = t
    /\ \E a \in TokenArgs :
         /\ kArgs' = [kArgs EXCEPT ![t] = a]
         /\ kKey' = [kKey EXCEPT ![t] = CacheKey(a.userEmail, a.roleID, a.userRoles)]
    /\ kSnap' = [kSnap EXCEPT ![t] = bearerTokenCache]
    /\ kpc' = [kpc EXCEPT ![t] = "load"]
    /\ UNCHANGED <<bearerTokenCache, credentials, kLast, kStored, kCalls>>
    /\ CredFrame
\* lines 919-928: mutex.Lock(), then the key is computed from the arguments.
LockMutex(t) ==
    /\ kpc[t] = "lock"
    /\ mutex = None
    /\ mutex' = t
    /\ \E a \in TokenArgs :
         /\ kArgs' = [kArgs EXCEPT ![t] = a]
         /\ kKey' = [kKey EXCEPT ![t] = CacheKey(a.userEmail, a.roleID, a.userRoles)]
    /\ kSnap' = [kSnap EXCEPT ![t] = bearerTokenCache]
    /\ kpc' = [kpc EXCEPT ![t] = "load"]
    /\ UNCHANGED <<bearerTokenCache, credentials, kLast, kStored, kCalls>>
    /\ CredFrame

\* The deferred mutex.Unlock() and the return of (token, err).
Return(t, out, exchanged, after) ==
    /\ kLast' = Returned(t, out, exchanged, after)
    /\ mutex' = None
    /\ kpc' = [kpc EXCEPT ![t] = "idle"]
    /\ kArgs' = [kArgs EXCEPT ![t] = <<>>]
    /\ kKey' = [kKey EXCEPT ![t] = <<>>]
    /\ kSnap' = [kSnap EXCEPT ![t] = <<>>]

\* lines 931-934: cache hit, the cached token is returned.
LoadHit(t) ==
    /\ kpc[t] = "load"
    /\ CacheHit(bearerTokenCache, kKey[t])
    /\ Return(t, <<bearerTokenCache[kKey[t]], NoErr>>, FALSE, bearerTokenCache)
    /\ UNCHANGED <<bearerTokenCache, credentials, kStored, kCalls>>
    /\ CredFrame

\* line 935: cache miss.
LoadMiss(t) ==
    /\ kpc[t] = "load"
    /\ ~CacheHit(bearerTokenCache, kKey[t])
    /\ kpc' = [kpc EXCEPT ![t] = "creds"]
    /\ UNCHANGED <<bearerTokenCache, mutex, credentials, kArgs, kKey, kSnap, kLast,
                   kStored, kCalls>>
    /\ CredFrame

\* lines 938-941: creds, err := getCredentials()
LoadCredentials(t) ==
    /\ kpc[t] = "creds"
    /\ \E env \in CredentialEnvs :
         LET out == getCredentials(credentials, env)
         IN  /\ credentials' = out[1]
             /\ IF out[2] # NoErr
                THEN Return(t, <<"", out[2]>>, FALSE, bearerTokenCache)
                ELSE /\ kpc' = [kpc EXCEPT ![t] = "sign"]
                     /\ UNCHANGED <<mutex, kArgs, kKey, kSnap, kLast>>
    /\ UNCHANGED <<bearerTokenCache, kStored, kCalls>>
    /\ CredFrame

\* lines 944-947: signedToken, err := generateJWTToken(creds, userEmail)
SignToken(t) ==
    /\ kpc[t] = "sign"
    /\ LET out == generateJWTToken(credentials)
       IN  IF out[2] # NoErr
           THEN Return(t, <<"", out[2]>>, FALSE, bearerTokenCache)
           ELSE /\ kpc' = [kpc EXCEPT ![t] = "exchange"]
                /\ UNCHANGED <<mutex, kArgs, kKey, kSnap, kLast>>
    /\ UNCHANGED <<bearerTokenCache, credentials, kStored, kCalls>>
    /\ CredFrame

\* lines 950-1008: the token request, the checks of the response, Store.
ExchangeToken(t) ==
    /\ kpc[t] = "exchange"
    /\ \E env \in ExchangeEnvs :
         /\ IF StoresToken(env)
            THEN /\ bearerTokenCache' = Store(bearerTokenCache, kKey[t], env.accessToken)
                 /\ kStored' = kStored \cup
                       { [userEmail |-> kArgs[t].userEmail, roleID |-> kArgs[t].roleID,
                          roles |-> {kArgs[t].userRoles[i] :
                                       i \in DOMAIN kArgs[t].userRoles}] }
            ELSE UNCHANGED <<bearerTokenCache, kStored>>
         /\ Return(t, ExchangeOutcome(env), env.step # "NewRequest", bearerTokenCache')
    /\ UNCHANGED <<credentials, kCalls>>
    /\ CredFrame

NextCred ==
    \E t \in Callers :
        \/ CallGetBearerToken(t)
        \/ LockMutex(t)
        \/ LoadHit(t)
        \/ LoadMiss(t)
        \/ LoadCredentials(t)
        \/ SignToken(t)
        \/ ExchangeToken(t)

(***************************************************************************)
(* Claims about the credential cache                                       *)
(***************************************************************************)
RoleOrder == <<G1, G2>>

SortedJoin(userRoles) ==
    Join(SelectSeq(RoleOrder, LAMBDA r : r \in Range(userRoles)), <<",">>)

StoredAs(a) ==
    [userEmail |-> a.userEmail, roleID |-> a.roleID, roles |-> Range(a.userRoles)]

\* C11: with a non-empty role the cache key is roleID ":" userEmail ":" and the
\* caller's roles joined by "," in sorted order, so a call whose identity, role
\* and set of roles already stored a token finds that entry (it never goes on
\* to load credentials, sign or exchange).
C11_SortedKeySharesEntry ==
    \A t \in Callers :
        (kpc[t] \in {"load", "creds", "sign", "exchange"} /\ kArgs[t].roleID # <<>>) =>
            /\ kKey[t] = kArgs[t].roleID \o <<":">> \o kArgs[t].userEmail \o <<":">>
                           \o SortedJoin(kArgs[t].userRoles)
            /\ (kpc[t] # "load" => StoredAs(kArgs[t]) \notin kStored)

\* C12: a getBearerToken call that returns an error returns the empty token,
\* and the cache it leaves is the cache it found when it took the mutex.
C12_FailureLeavesCacheUnchanged ==
    (kLast # NoCall /\ kLast.ret[2] # NoErr) =>
        /\ kLast.ret[1] = ""
        /\ kLast.after = kLast.snap

\* A call failed after sending the token request while the cache held an entry.
C12_Witness ==
    /\ kLast # NoCall
    /\ kLast.ret[2] # NoErr
    /\ kLast.exchanged
    /\ kLast.snap # <<>>
    /\ kLast.after = kLast.snap

defaultBatchSize == 25
BatchArgs == (0 - 1)..MaxBatchSize \cup {defaultBatchSize}
ProcessorKinds == {"records", "detokenize"}
Nil == None

EffectiveBatchSizeOne(batchSize) == IF batchSize <= 0 THEN 1 ELSE batchSize
\* lines 1266-1268
EffectiveBatchSize(batchSize) == IF batchSize <= 0 THEN defaultBatchSize ELSE batchSize

\* The number of loop iterations batchProcessor makes over n items.
ChunkCount(n, batchSize) ==
    (n + EffectiveBatchSize(batchSize) - 1) \div EffectiveBatchSize(batchSize)

\* lines 1272-1275
BatchEnd(i, batchSize, n) == IF i + batchSize > n THEN n ELSE i + batchSize

NextIndexSkipsOne(i, batchSize) == i + batchSize + 1
\* line 1271: i += batchSize
NextIndex(i, batchSize) == i + batchSize

FailureResultsPartial(results) == results
\* line 1280: return nil, fmt.Errorf(...)
FailureResults(results) == <<>>

\* What the collaborator of a processor does with one batch: the vault or
\* the warehouse accepts it or fails; for detokenization the vault's answer
\* may be complete, one record short, one record long, carry an error in its
\* first record, or list the records in reverse order.
ProcessorEnvs(kind) ==
    IF kind = "records" THEN {"ok", "fail"}
    ELSE {"fail", "full", "short", "long", "errFirst", "reversed"}

DetokValue(x) == x + 100

\* resp.Records of a detokenize response to batch under env.
VaultRecords(batch, env) ==
    LET full == [j \in 1..Len(batch) |-> [Value |-> DetokValue(batch[j]), Error |-> FALSE]]
    IN  CASE env = "full" -> full
          [] env = "short" -> SubSeq(full, 1, Len(full) - 1)
          [] env = "long" -> Append(full, [Value |-> DetokValue(0), Error |-> FALSE])
          [] env = "errFirst" -> [full EXCEPT ![1] = [Value |-> DetokValue(0), Error |-> TRUE]]
          [] env = "reversed" -> [j \in 1..Len(full) |-> full[Len(full) + 1 - j]]

ReplyOfIgnoringError(records, j) == IF j <= Len(records) THEN records[j].Value ELSE Nil
\* lines 863-873: results[j] for position j of the batch.
ReplyOf(records, j) ==
    IF j <= Len(records) /\ ~records[j].Error THEN records[j].Value ELSE Nil

DetokenizeProcessorPropagates(batch, env) ==
    IF env = "fail" THEN <<<<>>, <<"Skyflow request failed">>>>
    ELSE <<[j \in 1..Len(batch) |-> ReplyOf(VaultRecords(batch, env), j)], NoErr>>
\* lines 820-875: the (results, err) pair of handleDetokenize's processor.
DetokenizeProcessor(batch, env) ==
    IF env = "fail" THEN <<[j \in 1..Len(batch) |-> Nil], NoErr>>
    ELSE <<[j \in 1..Len(batch) |-> ReplyOf(VaultRecords(batch, env), j)], NoErr>>

\* lines 680-685, 709-747: the (results, err) pair of a processor that
\* returns its batch.
RecordsProcessor(batch, env) ==
    IF env = "fail" THEN <<<<>>, <<"error processing batch">>>> ELSE <<batch, NoErr>>

Processor(kind, batch, env) ==
    IF kind = "records" THEN RecordsProcessor(batch, env)
    ELSE DetokenizeProcessor(batch, env)

BatchFrame == UNCHANGED <<dedupVars, configVars, resolveVars, credVars, sizeVars, tableVars, requestVars, lockVars>>

\* The (number of items, batchSize) pairs whose run makes at most MaxChunks
\* processor calls.
InitBatch ==
    /\ bKind \in ProcessorKinds
    /\ \E n \in (0..MaxItems) \cup {defaultBatchSize, defaultBatchSize + 1} :
          bItems = [x \in 1..n |-> x]
    /\ bArg \in BatchArgs
    /\ ChunkCount(Len(bItems), bArg) <= MaxChunks
    /\ bSize = bArg
    /\ bpc = "start"
    /\ bI = 0
    /\ bResults = <<>>
    /\ bCalls = <<>>
    /\ bEnvs = <<>>
    /\ bOuts = <<>>
    /\ bApplied = <<>>
    /\ bRet = NoResult

\* lines 1266-1271: default batch size, empty results, i := 0.
StartBatches ==
    /\ bpc = "start"
    /\ bSize' = EffectiveBatchSize(bSize)
    /\ bResults' = <<>>
    /\ bI' = 0
    /\ bpc' = "loop"
    /\ UNCHANGED <<bKind, bItems, bArg, bCalls, bEnvs, bOuts, bApplied, bRet>>
    /\ BatchFrame

\* lines 1271-1282: one iteration of the loop.
ProcessOneBatch ==
    /\ bpc = "loop"
    /\ bI < Len(bItems)
    /\ \E env \in ProcessorEnvs(bKind) :
         LET end == BatchEnd(bI, bSize, Len(bItems))
             batch == SubSeq(bItems, bI + 1, end)
             out == Processor(bKind, batch, env)
         IN  /\ bCalls' = Append(bCalls, batch)
             /\ bEnvs' = Append(bEnvs, env)
             /\ bOuts' = Append(bOuts, out)
             /\ IF out[2] # NoErr
                THEN /\ bRet' = <<FailureResults(bResults), <<"error processing batch: ">> \o out[2]>>
                     /\ bpc' = "done"
                     /\ UNCHANGED <<bResults, bI, bApplied>>
                ELSE /\ bResults' = bResults \o out[1]
                     /\ bApplied' = IF env = "fail" THEN bApplied ELSE bApplied \o batch
                     /\ bI' = NextIndex(bI, bSize)
                     /\ UNCHANGED <<bRet, bpc>>
    /\ UNCHANGED <<bKind, bItems, bArg, bSize>>
    /\ BatchFrame

FinishBatchesEarly ==
    /\ bpc = "loop"
    /\ bI + bSize >= Len(bItems)
    /\ bRet' = <<bResults, NoErr>>
    /\ bpc' = "done"
    /\ UNCHANGED <<bKind, bItems, bArg, bSize, bI, bResults, bCalls, bEnvs, bOuts, bApplied>>
    /\ BatchFrame
\* line 1285: return results, nil
FinishBatches ==
    /\ bpc = "loop"
    /\ bI >= Len(bItems)
    /\ bRet' = <<bResults, NoErr>>
    /\ bpc' = "done"
    /\ UNCHANGED <<bKind, bItems, bArg, bSize, bI, bResults, bCalls, bEnvs, bOuts, bApplied>>
    /\ BatchFrame

NextBatch == StartBatches \/ ProcessOneBatch \/ FinishBatches

(***************************************************************************)
(* Claims about the batch pipeline                                         *)
(***************************************************************************)
RECURSIVE Concat(_)
Concat(seqs) == IF seqs = <<>> THEN <<>> ELSE Head(seqs) \o Concat(Tail(seqs))

\* The k-th chunk of items for a positive batch size.
Chunk(items, size, k) ==
    SubSeq(items, (k - 1) * size + 1, MinOf({k * size, Len(items)}))

AllSucceeded == \A k \in 1..Len(bOuts) : bOuts[k][2] = NoErr

\* C14: with a positive batchSize the processor is invoked on contiguous,
\* non-overlapping chunks of at most batchSize items, once per chunk and in
\* order (every chunk but possibly the last holds exactly batchSize items,
\* the last between 1 and batchSize); when no call fails the chunks cover the
\* items and the result is the concatenation of the calls' results in that
\* order.  Ten items with batchSize 3 give the chunks 1-3, 4-6, 7-9, 10.
C14_ChunksInOrder ==
    bArg > 0 =>
        /\ \A k \in 1..Len(bCalls) : bCalls[k] = Chunk(bItems, bArg, k)
        /\ \A k \in 1..Len(bCalls) :
              /\ Len(bCalls[k]) \in 1..bArg
              /\ (k < ChunkCount(Len(bItems), bArg) => Len(bCalls[k]) = bArg)
        /\ (bpc = "done" /\ AllSucceeded) =>
              /\ Len(bCalls) = ChunkCount(Len(bItems), bArg)
              /\ Concat(bCalls) = bItems
              /\ bRet = <<Concat([k \in 1..Len(bOuts) |-> bOuts[k][1]]), NoErr>>
              /\ (bKind = "records" => bRet[1] = bItems)
        /\ (bpc = "done" /\ AllSucceeded /\ Len(bItems) = 10 /\ bArg = 3) =>
              bCalls = << <<1, 2, 3>>, <<4, 5, 6>>, <<7, 8, 9>>, <<10>> >>

\* process([1..10], 3, identity) has returned [1..10].
C14_Witness ==
    /\ bpc = "done"
    /\ bKind = "records"
    /\ bArg = 3
    /\ Len(bItems) = 10
    /\ bRet = <<bItems, NoErr>>
    /\ Len(bCalls) = 4

\* C15: when a processor call fails, batchProcessor returns a non-nil error
\* and no results, that call is the last one it makes, and the batches the
\* earlier calls applied stay applied.
C15_FailureStopsWithoutUndo ==
    \A k \in 1..Len(bOuts) :
        bOuts[k][2] # NoErr =>
            /\ k = Len(bCalls)
            /\ bpc = "done"
            /\ bRet[2] # NoErr
            /\ bRet[1] = <<>>
            /\ k <= ChunkCount(Len(bItems), bArg)
            /\ \A j \in 1..(k - 1) : bOuts[j][2] = NoErr
            /\ bApplied = Concat(SubSeq(bCalls, 1, k - 1))

\* The third of four chunks failed after two chunks had been applied.
C15_Witness ==
    /\ bpc = "done"
    /\ Len(bOuts) = 3
    /\ bOuts[3][2] # NoErr
    /\ ChunkCount(Len(bItems), bArg) = 4
    /\ bApplied # <<>>

\* The batch that holds call i, and i's position inside it.
BatchOf(i) == ((i - 1) \div bSize) + 1
PositionOf(i) == ((i - 1) % bSize) + 1

\* C18: detokenization never returns an error; every batch is sent to the
\* vault whatever happened to the batches before it; the reply positions of
\* a batch whose vault call failed are all null and those of a batch the
\* vault answered in full carry the detokenized values.
C18_FailedBatchYieldsNulls ==
    (bKind = "detokenize" /\ bpc = "done") =>
        /\ bRet[2] = NoErr
        /\ Len(bCalls) = ChunkCount(Len(bItems), bArg)
        /\ Len(bRet[1]) = Len(bItems)
        /\ \A i \in 1..Len(bItems) :
              /\ bEnvs[BatchOf(i)] = "fail" => bRet[1][i] = Nil
              /\ bEnvs[BatchOf(i)] = "full" => bRet[1][i] = DetokValue(bItems[i])

\* A failed batch was followed by a batch that was answered in full.
C18_Witness ==
    /\ bKind = "detokenize"
    /\ bpc = "done"
    /\ \E k \in 1..(Len(bEnvs) - 1) : bEnvs[k] = "fail" /\ bEnvs[k + 1] = "full"
    /\ \E i \in 1..Len(bItems) : bRet[1][i] = Nil
    /\ \E i \in 1..Len(bItems) : bRet[1][i] # Nil

\* C19: the detokenization reply has one entry per input call, in input
\* order; entry i is the value of the vault record at call i's position within
\* its batch, or null when that record carries an error, the response has no
\* record at that position, or the batch's vault call failed.
C19_ReplyPerCallInOrder ==
    (bKind = "detokenize" /\ bpc = "done") =>
        /\ bRet[2] = NoErr
        /\ Len(bRet[1]) = Len(bItems)
        /\ \A i \in 1..Len(bItems) :
              LET k == BatchOf(i)
                  j == PositionOf(i)
              IN  IF bEnvs[k] = "fail" THEN bRet[1][i] = Nil
                  ELSE LET records == VaultRecords(bCalls[k], bEnvs[k])
                       IN  IF j > Len(records) \/ records[j].Error
                           THEN bRet[1][i] = Nil
                           ELSE bRet[1][i] = records[j].Value

\* A reply built from a short response, a response with a record error and a
\* response whose records are in reverse order.
C19_Witness ==
    /\ bKind = "detokenize"
    /\ bpc = "done"
    /\ Len(bItems) > bSize
    /\ \E k \in 1..Len(bEnvs) : bEnvs[k] = "short"
    /\ \E k \in 1..Len(bEnvs) : bEnvs[k] = "errFirst"
    /\ \E k \in 1..Len(bEnvs) : bEnvs[k] = "reversed" /\ Len(bCalls[k]) > 1

(***************************************************************************)
(* Batch-size settings: getBatchSize (lines 1289-1296) as called at lines  *)
(* 644, 645 and 817.  A setting is a sequence of characters.               *)
(***************************************************************************)
SettingNames ==
    {"SKYFLOW_INSERT_BATCH_SIZE", "SKYFLOW_DETOKENIZE_BATCH_SIZE", "BIGQUERY_UPDATE_BATCH_SIZE"}

\* lines 644, 645, 817: the defaultSize each caller passes.
DefaultSize(envVar) == IF envVar = "BIGQUERY_UPDATE_BATCH_SIZE" THEN 1000 ELSE 25

Unset == <<"<unset>">>
Settings ==
    {Unset, <<>>, <<"a", "b", "c">>, <<"2", "x">>, <<" ", "2">>, <<"1", ".", "5">>,
     <<"+", "2">>, <<"0", "2">>, <<"-">>}
    \cup {Digits(n) : n \in 0..MaxSetting}
    \cup {<<"-">> \o Digits(n) : n \in 1..MaxSetting}

\* os.Getenv: an unset variable reads as the empty string.
Getenv(env, envVar) == IF env[envVar] = Unset THEN <<>> ELSE env[envVar]

\* strconv.Atoi on a numeral within the range of int: an optional sign and
\* at least one decimal digit; the (value, ok) pair.
RECURSIVE AtoiDigits(_, _)
AtoiDigits(s, acc) ==
    IF s = <<>> THEN <<acc, TRUE>>
    ELSE IF \E d \in 0..9 : ToString(d) = s[1]
         THEN AtoiDigits(Tail(s), 10 * acc + (CHOOSE d \in 0..9 : ToString(d) = s[1]))
         ELSE <<0, FALSE>>

Atoi(s) ==
    LET signed == s # <<>> /\ s[1] \in {"+", "-"}
        body == IF signed THEN Tail(s) ELSE s
        parsed == AtoiDigits(body, 0)
    IN  IF body = <<>> \/ ~parsed[2] THEN <<0, FALSE>>
        ELSE IF signed /\ s[1] = "-" THEN <<0 - parsed[1], TRUE>>
        ELSE parsed

AcceptsAnyNumber(parsed) == parsed[2]
\* line 1291: err == nil && val > 0
Accepts(parsed) == parsed[2] /\ parsed[1] > 0

\* lines 1289-1296
getBatchSize(env, envVar, defaultSize) ==
    LET batchStr == Getenv(env, envVar)
    IN  IF batchStr # <<>> /\ Accepts(Atoi(batchStr)) THEN Atoi(batchStr)[1]
        ELSE defaultSize

SizeFrame == UNCHANGED <<dedupVars, configVars, resolveVars, credVars, batchVars, tableVars, requestVars, lockVars>>

InitSize ==
    /\ eEnv \in [SettingNames -> Settings]
    /\ eSizes = [v \in SettingNames |-> None]

\* lines 644, 645, 817: a handler reads one of the batch sizes.
ReadBatchSize(envVar) ==
    /\ eSizes[envVar] = None
    /\ eSizes' = [eSizes EXCEPT ![envVar] = getBatchSize(eEnv, envVar, DefaultSize(envVar))]
    /\ UNCHANGED eEnv
    /\ SizeFrame

NextSize == \E envVar \in SettingNames : ReadBatchSize(envVar)

(***************************************************************************)
(* Claims about the batch-size settings                                    *)
(***************************************************************************)
\* The positive integer a setting denotes, or 0 when it denotes none.
PositiveIntegerOf(s) ==
    IF \E n \in 1..MaxSetting : s \in {Digits(n), <<"+">> \o Digits(n), <<"0">> \o Digits(n)}
    THEN CHOOSE n \in 1..MaxSetting : s \in {Digits(n), <<"+">> \o Digits(n), <<"0">> \o Digits(n)}
    ELSE 0

\* C16: each of the three batch sizes is the positive integer its own setting
\* denotes, and otherwise (unset, empty, non-numeric, zero or negative) its
\* default: 25 for insert, 25 for detokenize, 1000 for update.  Each depends
\* on its own setting only and is always positive.
C16_BatchSizeFromOwnSetting ==
    \A v \in SettingNames :
        eSizes[v] # None =>
            /\ eSizes[v] > 0
            /\ eSizes[v] = IF PositiveIntegerOf(eEnv[v]) > 0 THEN PositiveIntegerOf(eEnv[v])
                           ELSE IF v = "BIGQUERY_UPDATE_BATCH_SIZE" THEN 1000 ELSE 25

\* The three sizes were read with one setting a positive integer, one unset
\* and one zero.
C16_Witness ==
    /\ eEnv["SKYFLOW_INSERT_BATCH_SIZE"] = Digits(MaxSetting)
    /\ eSizes["SKYFLOW_INSERT_BATCH_SIZE"] = MaxSetting
    /\ eEnv["SKYFLOW_DETOKENIZE_BATCH_SIZE"] = Unset
    /\ eSizes["SKYFLOW_DETOKENIZE_BATCH_SIZE"] = 25
    /\ eEnv["BIGQUERY_UPDATE_BATCH_SIZE"] = <<"0">>
    /\ eSizes["BIGQUERY_UPDATE_BATCH_SIZE"] = 1000

(***************************************************************************)
(* Table tokenizer: handleTokenizeTable (lines 616-764) and processBatch   *)
(* (lines 767-794).  A cell value is a sequence of characters; the         *)
(* character "u-umlaut" takes two bytes in Go's UTF-8 strings, every       *)
(* other character one.                                                    *)
(***************************************************************************)
minPiiLength == 7

columnList == <<"c1", "c2">>
TableRows == {1, 2}
NullCell == <<"<nil>">>
Mueller == <<"M", "u-umlaut", "l", "l", "e", "r">>
CellValues(column) ==
    IF column = "c1"
    THEN {NullCell, Mueller, <<"a", "b", "c", "d", "e", "f", "g">>,
          <<"h", "i", "j", "k", "l", "m", "n">>}
    ELSE {<<>>, <<"a", "b", "c", "d", "e", "f">>, <<"a", "b", "c", "d", "e", "f", "g">>}
TableBatchSizes == {1, 2}

\* len(strValue): the number of bytes.
RECURSIVE ByteLen(_)
ByteLen(s) ==
    IF s = <<>> THEN 0
    ELSE (IF Head(s) = "u-umlaut" THEN 2 ELSE 1) + ByteLen(Tail(s))

\* lines 657-669: the cells that are not turned into records.
Skips(strValue) ==
    strValue = NullCell \/ strValue = <<>> \/ ByteLen(strValue) < minPiiLength

\* lines 653-677: the records, row by row and column by column.
PrepareRecords(bqData) ==
    LET cells == [k \in 1..(Cardinality(TableRows) * Len(columnList)) |->
                    [row |-> ((k - 1) \div Len(columnList)) + 1,
                     column |-> columnList[((k - 1) % Len(columnList)) + 1]]]
        kept == SelectSeq(cells, LAMBDA cell : ~Skips(bqData[cell.row][cell.column]))
    IN  [k \in 1..Len(kept) |->
           [pii |-> bqData[kept[k].row][kept[k].column], Table |-> kept[k].column]]

\* The token the vault issues for a value.
TokenFor(v) == <<"tok-">> \o v

\* skyflowResp.Records for a batch: one record per item, one fewer, or one
\* more.
TokenizeEnvs == {"fail", "full", "short", "long"}
TokenRecords(batch, env) ==
    LET full == [i \in 1..Len(batch) |-> TokenFor(batch[i].pii)]
    IN  CASE env = "full" -> full
          [] env = "short" -> SubSeq(full, 1, Len(full) - 1)
          [] env = "long" -> Append(full, TokenFor(<<"x">>))

\* lines 785-791: columnTokenMaps after response record i and its
\* successors; batch[i] beyond the batch is a run-time panic (index out of
\* range), which ends the handler.
RECURSIVE processBatch(_, _, _, _)
processBatch(maps, batch, records, i) ==
    IF i > Len(records) THEN [maps |-> maps, panic |-> FALSE]
    ELSE IF i > Len(batch) THEN [maps |-> maps, panic |-> TRUE]
    ELSE processBatch(
           [maps EXCEPT ![batch[i].Table] = Store(@, batch[i].pii, records[i])],
           batch, records, i + 1)

UpdateStatementFirstValue(column, batch) ==
    [column |-> column, cases |-> batch, inList |-> {batch[1][1]}]
\* lines 710-739: the UPDATE statement for one batch of pairs of a column.
UpdateStatement(column, batch) ==
    [column |-> column, cases |-> batch, inList |-> {batch[i][1] : i \in 1..Len(batch)}]

\* The warehouse table after the statement has run.
ApplyUpdate(table, stmt) ==
    [r \in TableRows |->
       [c \in DOMAIN table[r] |->
          IF c = stmt.column /\ table[r][c] \in stmt.inList
          THEN LET i == CHOOSE i \in 1..Len(stmt.cases) : stmt.cases[i][1] = table[r][c]
               IN  stmt.cases[i][2]
          ELSE table[r][c]]]

\* The orders in which Go may iterate over the keys of a map.
Orders(S) == {s \in [1..Cardinality(S) -> S] : \A i, j \in 1..Cardinality(S) : s[i] = s[j] => i = j}

TableFrame == UNCHANGED <<dedupVars, configVars, resolveVars, credVars, batchVars, sizeVars, requestVars, lockVars>>

InitTable ==
    /\ tData \in [TableRows -> {row \in [{"c1", "c2"} -> CellValues("c1") \cup CellValues("c2")] :
                                  \A c \in {"c1", "c2"} : row[c] \in CellValues(c)}]
    /\ tTable = tData
    /\ tSkyBatch \in TableBatchSizes
    /\ tBqBatch \in TableBatchSizes
    /\ tpc = "query"
    /\ tRecords = <<>>
    /\ tI = 0
    /\ tMaps = <<>>
    /\ tSent = <<>>
    /\ tColsLeft = {}
    /\ tColumn = ""
    /\ tPairs = <<>>
    /\ tUpdates = <<>>
    /\ tRet = NoResult

TableReturn(reply, err) ==
    /\ tRet' = <<reply, err>>
    /\ tpc' = "done"

\* lines 637-677: the query, the empty token maps, the records.
QueryAndPrepare ==
    /\ tpc = "query"
    /\ \E ok \in BOOLEAN :
         IF ok
         THEN /\ tMaps' = [c \in {"c1", "c2"} |-> <<>>]
              /\ tRecords' = PrepareRecords(tData)
              /\ tI' = 0
              /\ tpc' = "tokenize"
              /\ UNCHANGED tRet
         ELSE /\ TableReturn(Nil, <<"error querying BigQuery">>)
              /\ UNCHANGED <<tMaps, tRecords, tI>>
    /\ UNCHANGED <<tData, tTable, tSkyBatch, tBqBatch, tSent, tColsLeft, tColumn, tPairs,
                   tUpdates>>
    /\ TableFrame

\* lines 680-687: one iteration of batchProcessor(records, skyflowBatchSize, ...).
TokenizeBatch ==
    /\ tpc = "tokenize"
    /\ tI < Len(tRecords)
    /\ LET batch == SubSeq(tRecords, tI + 1, BatchEnd(tI, tSkyBatch, Len(tRecords)))
       IN  /\ tSent' = Append(tSent, batch)
           /\ \E env \in TokenizeEnvs :
                IF env = "fail"
                THEN /\ TableReturn(Nil, <<"error processing batch">>)
                     /\ UNCHANGED <<tMaps, tI>>
                ELSE LET out == processBatch(tMaps, batch, TokenRecords(batch, env), 1)
                     IN  /\ tMaps' = out.maps
                         /\ IF out.panic
                            THEN /\ tpc' = "panic"
                                 /\ UNCHANGED <<tRet, tI>>
                            ELSE /\ tI' = NextIndex(tI, tSkyBatch)
                                 /\ UNCHANGED <<tRet, tpc>>
    /\ UNCHANGED <<tData, tTable, tSkyBatch, tBqBatch, tRecords, tColsLeft, tColumn, tPairs,
                   tUpdates>>
    /\ TableFrame

\* lines 687-693: every batch was tokenized; the loop over the columns starts.
TokenizeDone ==
    /\ tpc = "tokenize"
    /\ tI >= Len(tRecords)
    /\ tColsLeft' = {"c1", "c2"}
    /\ tpc' = "columns"
    /\ UNCHANGED <<tData, tTable, tSkyBatch, tBqBatch, tRecords, tI, tMaps, tSent, tColumn,
                   tPairs, tUpdates, tRet>>
    /\ TableFrame

\* lines 693-706: the next column in map order; its pairs in map order.
PickColumn ==
    /\ tpc = "columns"
    /\ \E column \in tColsLeft :
         /\ tColsLeft' = tColsLeft \ {column}
         /\ IF DOMAIN tMaps[column] = {}
            THEN UNCHANGED <<tColumn, tPairs, tI, tpc>>
            ELSE /\ tColumn' = column
                 /\ \E order \in Orders(DOMAIN tMaps[column]) :
                      tPairs' = [i \in 1..Len(order) |-> <<order[i], tMaps[column][order[i]]>>]
                 /\ tI' = 0
                 /\ tpc' = "update"
    /\ UNCHANGED <<tData, tTable, tSkyBatch, tBqBatch, tRecords, tMaps, tSent, tUpdates, tRet>>
    /\ TableFrame

UpdateBatchContinues ==
    /\ tpc = "update"
    /\ tI < Len(tPairs)
    /\ LET batch == SubSeq(tPairs, tI + 1, BatchEnd(tI, tBqBatch, Len(tPairs)))
           stmt == UpdateStatement(tColumn, batch)
       IN  \E ok \in BOOLEAN :
             /\ tUpdates' = Append(tUpdates, [stmt |-> stmt, ok |-> ok])
             /\ tTable' = IF ok THEN ApplyUpdate(tTable, stmt) ELSE tTable
             /\ tI' = NextIndex(tI, tBqBatch)
             /\ UNCHANGED <<tRet, tpc>>
    /\ UNCHANGED <<tData, tSkyBatch, tBqBatch, tRecords, tMaps, tSent, tColsLeft, tColumn, tPairs>>
    /\ TableFrame
\* lines 709-752: one iteration of batchProcessor(pairs, bigqueryBatchSize, ...).
UpdateBatch ==
    /\ tpc = "update"
    /\ tI < Len(tPairs)
    /\ LET batch == SubSeq(tPairs, tI + 1, BatchEnd(tI, tBqBatch, Len(tPairs)))
           stmt == UpdateStatement(tColumn, batch)
       IN  \E ok \in BOOLEAN :
             /\ tUpdates' = Append(tUpdates, [stmt |-> stmt, ok |-> ok])
             /\ IF ok
                THEN /\ tTable' = ApplyUpdate(tTable, stmt)
                     /\ tI' = NextIndex(tI, tBqBatch)
                     /\ UNCHANGED <<tRet, tpc>>
                ELSE /\ TableReturn(Nil, <<"error updating table">>)
                     /\ UNCHANGED <<tTable, tI>>
    /\ UNCHANGED <<tData, tSkyBatch, tBqBatch, tRecords, tMaps, tSent, tColsLeft, tColumn, tPairs>>
    /\ TableFrame

\* lines 749-753: the column's pairs are all written.
ColumnDone ==
    /\ tpc = "update"
    /\ tI >= Len(tPairs)
    /\ tpc' = "columns"
    /\ UNCHANGED <<tData, tTable, tSkyBatch, tBqBatch, tRecords, tI, tMaps, tSent, tColsLeft,
                   tColumn, tPairs, tUpdates, tRet>>
    /\ TableFrame

\* lines 755-763: the reply counts the tokenized values.
TableSuccess ==
    /\ tpc = "columns"
    /\ tColsLeft = {}
    /\ TableReturn(Cardinality(DOMAIN tMaps["c1"]) + Cardinality(DOMAIN tMaps["c2"]), NoErr)
    /\ UNCHANGED <<tData, tTable, tSkyBatch, tBqBatch, tRecords, tI, tMaps, tSent, tColsLeft,
                   tColumn, tPairs, tUpdates>>
    /\ TableFrame

NextTable ==
    \/ QueryAndPrepare
    \/ TokenizeBatch
    \/ TokenizeDone
    \/ PickColumn
    \/ UpdateBatch
    \/ ColumnDone
    \/ TableSuccess

(***************************************************************************)
(* Claims about the table tokenizer                                        *)
(***************************************************************************)
\* The number of characters of a value.
CharLen(strValue) == Len(strValue)

Tokenizable(strValue) ==
    strValue # NullCell /\ strValue # <<>> /\ CharLen(strValue) >= 7

\* C17: every value sent to the vault in a tokenize batch, and every original
\* value of an executed or attempted UPDATE statement, is non-null, non-empty
\* and at least 7 characters long.
C17_ShortValuesNeverLeave ==
    /\ \A k \in 1..Len(tSent) : \A i \in 1..Len(tSent[k]) : Tokenizable(tSent[k][i].pii)
    /\ \A k \in 1..Len(tUpdates) : \A v \in tUpdates[k].stmt.inList : Tokenizable(v)

\* C20: a tokenize-table operation that returns an error leaves the warehouse
\* table as it found it.
C20_FailedOperationRolledBack ==
    (tpc = "done" /\ tRet[2] # NoErr) => tTable = tData

(***************************************************************************)
(* Claims about completion of in-flight promises                           *)
(***************************************************************************)
Waiters == {r \in Reqs : waitOn[r] # None}
Fields(p) == <<promise[p].token, promise[p].err>>

\* C21 as stated: the in-flight call survives a client going away, and any
\* two finished requests for the same value returned the same result.
C21_FutureRequestSameResult ==
    \A r, s \in Reqs :
        (pc[r] = "done" /\ pc[s] = "done" /\ value[r] = value[s]) => result[r] = result[s]

\* C21: a winner whose client has gone away still finishes its remote call,
\* completes its promise with the outcome of that call and removes its
\* entry; a request that joined the promise while the call was in flight
\* returns that outcome, whether or not its own client has gone away.
C21_DisconnectNeverCancels ==
    /\ \A r \in Reqs :
          (r \in gone /\ pc[r] \in {"calling", "inCall"})
              ~> (promise[r].done /\ pc[r] = "done" /\ registry[value[r]] # r)
    /\ [](\A r \in Reqs :
            (pc[r] = "done" /\ waitOn[r] = None) =>
                /\ promise[r].done
                /\ Fields(r) = pend[r]
                /\ result[r] = pend[r])
    /\ [](\A s \in Waiters :
            pc[s] = "done" => (promise[waitOn[s]].done /\ result[s] = pend[waitOn[s]]))
    /\ \A s \in Reqs : pc[s] = "waiting" ~> pc[s] = "done"

\* A waiter returned the token of a winner whose client had gone away
\* during the remote call.
C21_Witness ==
    \E r, s \in Reqs :
        /\ r \in gone
        /\ pc[r] = "done"
        /\ waitOn[s] = r
        /\ pc[s] = "done"
        /\ result[s][1] \in Tokens
        /\ result[s] = result[r]

\* C23: the winner writes token and error, then gives the signal, then
\* removes the entry: the fields are written only before the signal and only
\* by the registered winner, at the signal they hold the outcome of the call,
\* they never change afterwards, the entry is removed only after the signal,
\* and a waiter that has returned read the fields of a signalled promise.
C23_WriteSignalRemove ==
    /\ [][\A r \in Reqs :
            /\ Fields(r)' # Fields(r) => (~promise[r].done /\ registry[value[r]] = r)
            /\ (~promise[r].done /\ promise'[r].done) =>
                   (Fields(r) = pend[r] /\ registry[value[r]] = r)
            /\ promise[r].done => promise'[r] = promise[r]
            /\ (registry[value[r]] = r /\ registry'[value[r]] # r) => promise[r].done]_vars
    /\ [](\A s \in Waiters :
            pc[s] = "done" => (promise[waitOn[s]].done /\ result[s] = Fields(waitOn[s])))

\* A waiter returned a token after the winner had removed its entry.
C23_Witness ==
    \E s \in Waiters :
        /\ pc[s] = "done"
        /\ result[s][1] \in Tokens
        /\ registry[value[s]] = None
        /\ pc[waitOn[s]] = "done"

\* C24: on every path that follows the remote call the winner gives the
\* completion signal, and gives it once: the signal is given only by the
\* step close(promise.done), which is reached only with the signal not yet
\* given; every winner whose remote call returns completes its promise, and
\* every waiter eventually returns.
C24_CompletesExactlyOnce ==
    /\ [](\A r \in Reqs : pc[r] = "closeDone" => ~promise[r].done)
    /\ [][\A r \in Reqs :
            (~promise[r].done /\ promise'[r].done) =>
                (pc[r] = "closeDone" /\ pc'[r] = "deleteEntry")]_vars
    /\ [](\A r \in Reqs :
            (pc[r] = "done" /\ apiEnv[r].step # "none") => promise[r].done)
    /\ \A r \in Reqs : pc[r] = "inCall" ~> promise[r].done
    /\ \A s \in Reqs : pc[s] = "waiting" ~> (pc[s] = "done" /\ s \in Waiters)

\* A waiter returned after its winner's call ended in each kind of outcome:
\* here the empty record list.
C24_Witness ==
    \E s \in Waiters :
        /\ pc[s] = "done"
        /\ apiEnv[waitOn[s]].step = "ok"
        /\ apiEnv[waitOn[s]].records = <<>>
        /\ result[s][2] # NoErr

(***************************************************************************)
(* Claims about the critical section of the credential cache               *)
(***************************************************************************)
Inside == {t \in Callers : kpc[t] \in {"load", "creds", "sign", "exchange"}}
HasStored(call) == call.after # call.snap

\* One critical section: a caller between lookup and store holds the mutex,
\* so no two callers are ever there together; the cache changes only in the
\* exchange step of the holder, only for a key it did not hold, and a call
\* that found its key in the cache returns that token without an exchange.
OneCriticalSection ==
    /\ [](\A t \in Inside : mutex = t)
    /\ [](Cardinality(Inside) <= 1)
    /\ [][bearerTokenCache' # bearerTokenCache =>
            \E t \in Callers :
                /\ mutex = t
                /\ kpc[t] = "exchange"
                /\ kKey[t] \notin DOMAIN bearerTokenCache
                /\ bearerTokenCache' = Store(bearerTokenCache, kKey[t], kLast'.ret[1])
                /\ kLast'.ret[2] = NoErr]_vars
    /\ [](kLast # NoCall /\ kLast.key \in DOMAIN kLast.snap =>
            /\ kLast.ret = <<kLast.snap[kLast.key], NoErr>>
            /\ ~kLast.exchanged
            /\ ~HasStored(kLast))

\* C25 as stated: one critical section, and of two concurrent calls with the
\* same key of which one stored a token, the other returned that token.
C25_OthersReturnStoredToken ==
    /\ OneCriticalSection
    /\ [](kLast # NoCall /\ kLast.pred # NoCall =>
            /\ kLast.pred.stored => kLast.ret = <<kLast.pred.token, NoErr>>
            /\ HasStored(kLast) => kLast.pred.token = kLast.ret[1])

\* C25: one critical section, and of two concurrent calls with the same key
\* the one that takes the mutex after the other stored a token returns that
\* token without an exchange of its own; a call that returned before the
\* store returned an error.
C25_LaterCallsReturnStoredToken ==
    /\ OneCriticalSection
    /\ [](kLast # NoCall /\ kLast.pred # NoCall =>
            /\ kLast.pred.stored =>
                   (kLast.ret = <<kLast.pred.token, NoErr>> /\ ~kLast.exchanged)
            /\ HasStored(kLast) => kLast.pred.token = "")

\* A call that waited for the mutex while a call with the same key stored
\* a token has returned that token without an exchange.
C25_Witness ==
    /\ kLast # NoCall
    /\ kLast.pred # NoCall
    /\ kLast.pred.stored
    /\ kLast.ret = <<kLast.pred.token, NoErr>>
    /\ kLast.ret[1] \in AccessTokens
    /\ ~kLast.exchanged

(***************************************************************************)
(* Claims about the two phases of the table tokenizer                      *)
(***************************************************************************)
\* The table after the successful statements of a list of updates.
RECURSIVE AppliedUpdates(_, _)
AppliedUpdates(table, updates) ==
    IF updates = <<>> THEN table
    ELSE LET before == AppliedUpdates(table, SubSeq(updates, 1, Len(updates) - 1))
             last == updates[Len(updates)]
         IN  IF last.ok THEN ApplyUpdate(before, last.stmt) ELSE before

Deciding ==
    IF rRequired = <<>>
    THEN {i \in 1..Len(rUserRoles) : MappingsOf(rConfig, rUserRoles[i]) # {}}
    ELSE {i \in 1..Len(rUserRoles) : rUserRoles[i] \in Range(rRequired)}

\* C28: the internal role returned for the deciding caller role is that of
\* the earliest mapping, in config order, whose external roles hold exactly
\* that role; a caller role that equals a mapped role only when letter case
\* is ignored matches no mapping, and alone it yields the default role.
C28_EarliestMappingCaseSensitive ==
    rResult # NoResult =>
        /\ Deciding # {} =>
              LET u == rUserRoles[MinOf(Deciding)]
                  J == {j \in 1..Len(rConfig.RoleMappings) :
                          \E k \in 1..Len(rConfig.RoleMappings[j].GoogleRoles) :
                              rConfig.RoleMappings[j].GoogleRoles[k] = u}
              IN  /\ J # {} => /\ rResult[1] = rConfig.RoleMappings[MinOf(J)].SkyflowRoleID
                               /\ \A j \in J : j >= MinOf(J)
                  /\ J = {} => rResult[1] = rConfig.DefaultRoleID
        /\ (\A i \in 1..Len(rUserRoles) :
              \A j \in 1..Len(rConfig.RoleMappings) :
                  rUserRoles[i] \notin Range(rConfig.RoleMappings[j].GoogleRoles))
              => rResult[1] = rConfig.DefaultRoleID

\* The first caller role equals a mapped role but for letter case and is
\* passed over; the second is held by both mappings, which name different
\* internal roles, and the first mapping's role is returned.
C28_Witness ==
    /\ rResult # NoResult
    /\ rRequired = <<>>
    /\ Len(rUserRoles) = 2
    /\ rUserRoles[1] # rUserRoles[2]
    /\ FoldCase(rUserRoles[1]) = rUserRoles[2]
    /\ MappingsOf(rConfig, rUserRoles[1]) = {}
    /\ MappingsOf(rConfig, rUserRoles[2]) = {1, 2}
    /\ rConfig.RoleMappings[1].SkyflowRoleID # rConfig.RoleMappings[2].SkyflowRoleID
    /\ rResult = <<rConfig.RoleMappings[1].SkyflowRoleID, TRUE>>

\* C29: the result depends on the caller roles as a set only: every list
\* holding the same roles yields the result returned.
C29_CallerRoleOrderIrrelevant ==
    rResult # NoResult =>
        \A other \in SeqsUpTo(Roles, MaxUserRoles) :
            Range(other) = Range(rUserRoles) =>
                hasRequiredRole(other, rRequired, rConfig) = rResult

(***************************************************************************)
(* Claims about the replacement of the loaded configuration                *)
(***************************************************************************)
\* C30: the cache changes only in the step that follows a successful parse,
\* taken by the holder of the write lock: it then holds a new RoleConfig
\* instance with the parsed content, stamped with the current time; the
\* timestamp never changes without the instance and never decreases; an
\* instance that was returned keeps its contents, whatever the cache holds
\* later.
C30_ConfigReplacedWholesale ==
    /\ [][cache' # cache =>
            \E t \in CThreads :
                /\ writer = t
                /\ cpc[t] = "unmarshal"
                /\ UnmarshalOk(data[t])
                /\ cache'.config.id # cache.config.id
                /\ cache'.config.id \notin {ret[u].id : u \in CThreads}
                /\ cache'.config.content = data[t]
                /\ cache'.timestamp = now]_vars
    /\ [][cache'.timestamp # cache.timestamp => cache'.config.id # cache.config.id]_vars
    /\ [][cache'.timestamp >= cache.timestamp]_vars
    /\ [][\A t \in CThreads : ret[t] # NilConfig => ret'[t] = ret[t]]_vars
    /\ [](\A t, u \in CThreads : ret[t].id = ret[u].id => ret[t] = ret[u])
    /\ [](\A t \in CThreads : ret[t].id = cache.config.id => ret[t] = cache.config)

\* A handler still holds the first instance while the cache holds a later
\* one with other contents and a later timestamp.
C30_Witness ==
    \E t \in CThreads :
        /\ cpc[t] = "done"
        /\ ret[t] # NilConfig
        /\ ret[t].id # cache.config.id
        /\ ret[t].content # cache.config.content
        /\ cache.timestamp >= roleConfigCacheDuration

(***************************************************************************)
(* One request through handleRequest                                       *)
(***************************************************************************)
\* Values of the warehouse column: personal data in the clear.
PiiValues == {"Jane Roe", "John Doe"}

OpTokenizeValue == "tokenize_value"
OpTokenizeTable == "tokenize_table"
OpDetokenize == "detokenize"

\* lines 309-314: the required roles of each operation.
operationRoles ==
    [op \in {OpTokenizeValue, OpTokenizeTable, OpDetokenize} |-> <<>>]

RequiredRolesOfUnknownGuarded(operation) ==
    IF operation \in DOMAIN operationRoles THEN operationRoles[operation] ELSE <<"g1">>
\* operationRoles[operation], line 528: a missing key yields the nil slice.
RequiredRolesOf(operation) ==
    IF operation \in DOMAIN operationRoles THEN operationRoles[operation] ELSE <<>>

\* The requests BigQuery sends: the session user, the operation of the
\* user-defined context and the argument of the call: a value to tokenize
\* (possibly empty) or a token to detokenize; the operation may be missing
\* or one the service does not know.
Requests ==
    [SessionUser : {"", "u1", "u2"}, operation : {OpTokenizeValue}, arg : {""} \cup PiiValues]
    \cup [SessionUser : {"", "u1", "u2"}, operation : {OpDetokenize}, arg : Tokens]
    \cup [SessionUser : {"u1"}, operation : {"", "tokenize", OpTokenizeTable}, arg : {""}]

\* One log.Printf: its line in the source and the data it formats.
Printf(line, args) == [line |-> line, args |-> args]

RequestFrame ==
    UNCHANGED <<dedupVars, configVars, resolveVars, credVars, batchVars, sizeVars, tableVars,
                lockVars>>

InitRequest ==
    /\ hReq \in Requests
    /\ hpc = "received"
    /\ hTrace = <<>>
    /\ hLog = <<>>
    /\ hStatus = None

\* http.Error or the encoded response: the request is answered.
Respond(status) ==
    /\ hStatus' = status
    /\ hpc' = "done"

\* lines 473-516: the body is read, logged and parsed; the session user is
\* required; the operation is logged and required.
ReceiveRequest ==
    /\ hpc = "received"
    /\ IF hReq.SessionUser = ""
       THEN /\ hLog' = hLog \o << Printf(485, <<>>),
                                  Printf(486, <<hReq.SessionUser, hReq.operation, hReq.arg>>) >>
            /\ Respond(400)
       ELSE /\ hLog' = hLog \o << Printf(485, <<>>),
                                  Printf(486, <<hReq.SessionUser, hReq.operation, hReq.arg>>),
                                  Printf(512, <<hReq.operation, hReq.SessionUser>>) >>
            /\ IF hReq.operation = ""
               THEN Respond(400)
               ELSE /\ hpc' = "roles"
                    /\ UNCHANGED hStatus
    /\ UNCHANGED <<hReq, hTrace>>
    /\ RequestFrame

\* What getUserRoles returns, line 520: the roles of the caller or an error.
UserRolesOutcomes ==
    { [err |-> TRUE, roles |-> <<>>] }
    \cup { [err |-> FALSE, roles |-> roles] : roles \in SeqsUpTo(Roles, MaxUserRoles) }

AuthorizeAlways ==
    /\ hpc = "roles"
    /\ \E got \in UserRolesOutcomes, config \in RoleConfigs :
         LET has == hasRequiredRole(got.roles, RequiredRolesOf(hReq.operation), config) IN
         /\ hLog' = hLog \o << Printf(519, <<hReq.SessionUser>>), Printf(521, got.roles) >>
         /\ IF got.err
            THEN hTrace' = hTrace \o << "getUserRoles" >>
            ELSE hTrace' = hTrace \o << "getUserRoles", "getRoleConfig",
                                        IF has[2] THEN "hasRequiredRole: true"
                                                  ELSE "hasRequiredRole: false" >>
         /\ hpc' = "dispatch"
         /\ UNCHANGED hStatus
    /\ UNCHANGED hReq
    /\ RequestFrame
\* lines 518-532: getUserRoles, then hasRequiredRole with the required roles
\* of the operation; an error of the first is answered with 500, a missing
\* role with 403.
Authorize ==
    /\ hpc = "roles"
    /\ \E got \in UserRolesOutcomes, config \in RoleConfigs :
         LET has == hasRequiredRole(got.roles, RequiredRolesOf(hReq.operation), config) IN
         /\ hLog' = hLog \o << Printf(519, <<hReq.SessionUser>>), Printf(521, got.roles) >>
         /\ IF got.err
            THEN /\ hTrace' = hTrace \o << "getUserRoles" >>
                 /\ Respond(500)
            ELSE IF ~has[2]
                 THEN /\ hTrace' = hTrace \o << "getUserRoles", "getRoleConfig",
                                                 "hasRequiredRole: false" >>
                      /\ Respond(403)
                 ELSE /\ hTrace' = hTrace \o << "getUserRoles", "getRoleConfig",
                                                 "hasRequiredRole: true" >>
                      /\ hpc' = "dispatch"
                      /\ UNCHANGED hStatus
    /\ UNCHANGED hReq
    /\ RequestFrame

\* lines 543-545, the default branch: the operation is not known.
UnknownOperation ==
    /\ hpc = "dispatch"
    /\ hReq.operation \notin {OpTokenizeValue, OpTokenizeTable, OpDetokenize}
    /\ Respond(400)
    /\ UNCHANGED <<hReq, hTrace, hLog>>
    /\ RequestFrame

\* lines 540, 548-551: handleTokenizeTable returns its reply or its error.
TokenizeTable ==
    /\ hpc = "dispatch"
    /\ hReq.operation = OpTokenizeTable
    /\ hTrace' = Append(hTrace, "handleTokenizeTable")
    /\ \E status \in {200, 500} : Respond(status)
    /\ UNCHANGED <<hReq, hLog>>
    /\ RequestFrame

\* lines 538, 565-567: the empty value is answered as it is.
TokenizeEmptyValue ==
    /\ hpc = "dispatch"
    /\ hReq.operation = OpTokenizeValue
    /\ hReq.arg = ""
    /\ Respond(200)
    /\ UNCHANGED <<hReq, hTrace, hLog>>
    /\ RequestFrame

\* lines 570-578: LoadOrStore finds a promise; the request waits for it and
\* answers with its token or its error.
JoinInFlight ==
    /\ hpc = "dispatch"
    /\ hReq.operation = OpTokenizeValue
    /\ hReq.arg # ""
    /\ hTrace' = hTrace \o << "LoadOrStore: loaded", "<-p.done" >>
    /\ hLog' = Append(hLog, Printf(574, <<hReq.arg>>))
    /\ \E status \in {200, 500} : Respond(status)
    /\ UNCHANGED hReq
    /\ RequestFrame

\* lines 570-581: LoadOrStore stores the promise of this request.
CreatePromise ==
    /\ hpc = "dispatch"
    /\ hReq.operation = OpTokenizeValue
    /\ hReq.arg # ""
    /\ hTrace' = Append(hTrace, "LoadOrStore: stored")
    /\ hLog' = Append(hLog, Printf(581, <<hReq.arg>>))
    /\ hpc' = "call"
    /\ UNCHANGED <<hReq, hStatus>>
    /\ RequestFrame

\* The calls makeSkyflowAPIRequest makes, lines 1363-1380, up to the step
\* where it fails.
ApiTrace(env) ==
    CASE env.step = "roles" -> << "getUserRoles" >>
      [] env.step = "token" -> << "getUserRoles", "getBearerToken" >>
      [] OTHER -> << "getUserRoles", "getBearerToken", "makeRequest" >>

\* lines 599-612 and 1350-1356: the remote call of the winner, the log of a
\* value the vault does not know, the completion of the promise.
TokenizeCall ==
    /\ hpc = "call"
    /\ \E env \in InFlightEnvs \cup { [step |-> "roles", inner |-> Denied],
                                      [step |-> "token", inner |-> Denied] } :
         LET out == TokenizeOutcome(makeSkyflowAPIRequest(env)) IN
         /\ hTrace' = hTrace \o ApiTrace(env) \o << "completeTokenPromise" >>
         /\ hLog' = IF VaultNotFound(env) THEN Append(hLog, Printf(602, <<hReq.arg>>))
                    ELSE hLog
         /\ Respond(IF out[2] = NoErr THEN 200 ELSE 500)
    /\ UNCHANGED hReq
    /\ RequestFrame

\* lines 542, 797-880: handleDetokenize with one call: the role is mapped,
\* the vault is called, the value it returns is logged and answered; a
\* failed call is answered with null.
Detokenize ==
    /\ hpc = "dispatch"
    /\ hReq.operation = OpDetokenize
    /\ \E env \in { [step |-> "token", inner |-> Denied],
                    [step |-> "ok", records |-> <<"error">>] }
                  \cup { [step |-> "ok", records |-> <<v>>] : v \in PiiValues } :
         /\ hTrace' = hTrace \o << "getRoleConfig", "hasRequiredRole: true" >> \o ApiTrace(env)
         /\ hLog' = hLog \o << Printf(800, <<>>), Printf(851, <<>>) >> \o
                    ( IF env.step # "ok" THEN << Printf(854, env.inner) >>
                      ELSE IF env.records = <<"error">>
                           THEN << Printf(863, <<hReq.arg>>) >>
                           ELSE << Printf(865, <<hReq.arg, env.records[1]>>) >> )
    /\ Respond(200)
    /\ UNCHANGED hReq
    /\ RequestFrame

NextRequest ==
    \/ ReceiveRequest
    \/ Authorize
    \/ TokenizeEmptyValue
    \/ JoinInFlight
    \/ CreatePromise
    \/ TokenizeCall
    \/ Detokenize
    \/ TokenizeTable
    \/ UnknownOperation

(***************************************************************************)
(* Claims about one request                                                *)
(***************************************************************************)
Logged == UNION { Range(hLog[i].args) : i \in 1..Len(hLog) }
Before(e, i) == \E j \in 1..(i - 1) : hTrace[j] = e
EnteredDeduplicator(i) == hTrace[i] \in {"LoadOrStore: loaded", "LoadOrStore: stored"}

\* C22: no value of personal data, sent for tokenization or returned by a
\* detokenization, is ever written to the log.
C22_PiiNeverLogged == Logged \cap PiiValues = {}

C31_NoReadBesideWriter ==
    \A t \in CThreads : cpc[t] = "logAge" => writer = None

(***************************************************************************)
(* Claims about the batch size and the number of processor calls           *)
(***************************************************************************)
CeilDiv(n, b) == IF n % b = 0 THEN n \div b ELSE (n \div b) + 1

\* The (results, err) pair batchProcessor returns for the outcomes of the
\* calls it made.
ExpectedReturn(outs) ==
    IF \E k \in 1..Len(outs) : outs[k][2] # NoErr
    THEN <<<<>>, <<"error processing batch: ">> \o outs[Len(outs)][2]>>
    ELSE <<Concat([k \in 1..Len(outs) |-> outs[k][1]]), NoErr>>

\* C32: a call with batchSize <= 0 and the call with batchSize 25 make the
\* same processor calls in the same order, and for the same outcomes of
\* those calls return the same pair: both follow the run on chunks of 25.
C32_NonPositiveSizeIsDefault ==
    (bArg <= 0 \/ bArg = defaultBatchSize) =>
        /\ bpc # "start" => bSize = defaultBatchSize
        /\ \A k \in 1..Len(bCalls) :
              /\ bCalls[k] = Chunk(bItems, defaultBatchSize, k)
              /\ bOuts[k] = Processor(bKind, Chunk(bItems, defaultBatchSize, k), bEnvs[k])
        /\ Len(bCalls) <= CeilDiv(Len(bItems), defaultBatchSize)
        /\ bpc = "done" =>
              /\ bRet = ExpectedReturn(bOuts)
              /\ AllSucceeded => Len(bCalls) = CeilDiv(Len(bItems), defaultBatchSize)

\* A call with a non-positive batchSize over 26 items has made two calls,
\* the first with 25 items, and returned.
C32_Witness ==
    /\ bpc = "done"
    /\ bArg <= 0
    /\ Len(bItems) = defaultBatchSize + 1
    /\ Len(bCalls) = 2
    /\ Len(bCalls[1]) = defaultBatchSize
    /\ bRet[2] = NoErr

\* C33: with n items and effective batch size b the processor is never
\* given an empty chunk, every chunk but the last holds b items and the last
\* between 1 and b; a run without failure makes ceil(n/b) calls; an empty
\* input makes no call and returns the empty sequence without error; and
\* every run returns.
C33_CallCountAndTermination ==
    /\ [](\A k \in 1..Len(bCalls) :
            /\ Len(bCalls[k]) >= 1
            /\ Len(bCalls[k]) <= EffectiveBatchSize(bArg)
            /\ k < Len(bCalls) => Len(bCalls[k]) = EffectiveBatchSize(bArg))
    /\ [](Len(bCalls) <= CeilDiv(Len(bItems), EffectiveBatchSize(bArg)))
    /\ []((bpc = "done" /\ AllSucceeded) =>
            Len(bCalls) = CeilDiv(Len(bItems), EffectiveBatchSize(bArg)))
    /\ [](bItems = <<>> =>
            /\ bCalls = <<>>
            /\ bpc = "done" => bRet = << <<>>, NoErr >>)
    /\ <>(bpc = "done")

\* Seven tokens in batches of two: four calls, the last with one token.
C33_Witness ==
    /\ bpc = "done"
    /\ AllSucceeded
    /\ Len(bItems) = 7
    /\ EffectiveBatchSize(bArg) = 2
    /\ Len(bCalls) = 4
    /\ Len(bCalls[4]) = 1

(***************************************************************************)
(* Claims about identities in the registry and in the credential cache     *)
(***************************************************************************)
\* C34: the registry is keyed by the value alone: a request that finds a
\* promise for its value joins it whoever its session user is; a request
\* that joined the promise of another session user makes no remote call,
\* hence no credential lookup, and returns the token and the error of that
\* promise.
C34_WaiterSharesAcrossUsers ==
    /\ [][\A s \in Reqs :
            (pc[s] = "start" /\ value[s] # "" /\ registry[value[s]] # None /\ pc'[s] # pc[s])
                => (pc'[s] = "waiting" /\ waitOn'[s] = registry[value[s]])]_vars
    /\ [](\A s \in Waiters :
            sessionUser[s] # sessionUser[waitOn[s]] =>
                /\ value[s] = value[waitOn[s]]
                /\ callsBy[s] = 0
                /\ apiEnv[s].step = "none"
                /\ pc[s] \in {"waiting", "done"}
                /\ pc[s] = "done" => (result[s] = Fields(waitOn[s]) /\ result[s] = pend[waitOn[s]]))

\* A request of one session user returned the error of the remote call
\* that a request of another session user made for the same value.
C34_Witness ==
    \E s \in Waiters :
        /\ sessionUser[s] # sessionUser[waitOn[s]]
        /\ pc[s] = "done"
        /\ callsBy[s] = 0
        /\ apiEnv[waitOn[s]].step = "token"
        /\ result[s][2] # NoErr

\* C35: calls that differ in the caller identity or in the role compute
\* different cache keys, so a call served from the cache is served a token
\* that a call with its own identity and role stored.
C35_KeySeparatesIdentityAndRole ==
    /\ (kLast # NoCall) =>
          \A st \in kStored :
              (st.userEmail # kLast.args.userEmail \/ st.roleID # kLast.args.roleID) =>
                  CacheKey(st.userEmail, st.roleID, st.userRoles) # kLast.key
    /\ (kLast # NoCall /\ kLast.key \in DOMAIN kLast.snap) =>
          \E st \in kStored :
              st.userEmail = kLast.args.userEmail /\ st.roleID = kLast.args.roleID

(***************************************************************************)
(* Claims about the life of a registry entry                               *)
(***************************************************************************)
InProgress == {r \in Reqs : pc[r] \notin {"start", "done"}}

\* C37: when no request is in progress the registry is empty: an entry
\* appears only as the promise of the request that stores it, it is removed
\* only by that request, at the end of completeTokenPromise, and a request
\* that made the call has removed its entry when it returns, whether the
\* call succeeded or failed.
C37_RegistryEmptyWhenIdle ==
    /\ [](InProgress = {} => \A v \in DOMAIN registry : registry[v] = None)
    /\ [](\A r \in Reqs : (pc[r] = "done" /\ value[r] # "") => registry[value[r]] # r)
    /\ [](\A v \in DOMAIN registry : registry[v] # None => registry[v] \in InProgress)
    /\ [][\A v \in DOMAIN registry :
            registry'[v] # registry[v] =>
                \/ /\ registry[v] = None
                   /\ pc[registry'[v]] = "start"
                   /\ value[registry'[v]] = v
                \/ /\ registry'[v] = None
                   /\ pc[registry[v]] = "deleteEntry"
                   /\ pc'[registry[v]] = "done"]_vars

\* Two requests for one value each stored a promise and made the call, one
\* call failed and one succeeded, and all requests have returned.
C37_Witness ==
    /\ InProgress = {}
    /\ \A r \in Reqs : pc[r] = "done"
    /\ \E r, s \in Reqs :
          /\ value[r] = value[s]
          /\ callsBy[r] = 1 /\ callsBy[s] = 1
          /\ result[r][2] # NoErr
          /\ result[s][2] = NoErr
    /\ \A v \in DOMAIN registry : registry[v] = None

(***************************************************************************)
(* Locks of the handlers.  Each goroutine serves one request and passes    *)
(* the read-write lock of roleConfigCache (getRoleConfig, lines 234-297,   *)
(* and handleDetokenize, lines 806-816), the registry of promises          *)
(* (handleTokenizeValue, lines 569-578) and the mutex of getBearerToken    *)
(* (lines 918-1009).  Only the locks, the promises and the freshness of    *)
(* the cached configuration are kept.                                      *)
(***************************************************************************)
Handlers == 1..NumHandlers

LockFrame ==
    UNCHANGED <<dedupVars, configVars, resolveVars, credVars, batchVars, sizeVars, tableVars,
                requestVars>>

\* main has loaded the configuration (line 460) before a request is served.
InitLocks ==
    /\ xOp \in [Handlers -> {OpTokenizeValue, OpDetokenize}]
    /\ xpc = [t \in Handlers |-> "getRoleConfig"]
    /\ xConfigCalls = [t \in Handlers |-> 0]
    /\ rwReaders = {}
    /\ rwWriter = None
    /\ xFresh \in BOOLEAN
    /\ mutexOwner = None
    /\ inFlight = None
    /\ closed = {}
    /\ xWaitOn = [t \in Handlers |-> None]

\* Where getRoleConfig returns to: handleRequest, line 528, dispatches to
\* handleTokenizeValue or to handleDetokenize, which calls hasRequiredRole
\* again (line 799) and then logs the configuration (line 806).
AfterGetRoleConfig(t) ==
    IF xOp[t] = OpTokenizeValue THEN "LoadOrStore"
    ELSE IF xConfigCalls[t] = 0 THEN "getRoleConfig"
    ELSE "logRLock"

\* line 235: roleConfigCache.RLock().
RoleConfigRLock(t) ==
    /\ xpc[t] = "getRoleConfig"
    /\ rwWriter = None
    /\ rwReaders' = rwReaders \cup {t}
    /\ xpc' = [xpc EXCEPT ![t] = "check"]
    /\ UNCHANGED <<xOp, xConfigCalls, rwWriter, xFresh, mutexOwner, inFlight, closed, xWaitOn>>
    /\ LockFrame

RoleConfigRUnlockMissing(t) ==
    /\ xpc[t] = "check"
    /\ IF xFresh
       THEN /\ xpc' = [xpc EXCEPT ![t] = AfterGetRoleConfig(t)]
            /\ xConfigCalls' = [xConfigCalls EXCEPT ![t] = @ + 1]
            /\ UNCHANGED rwReaders
       ELSE /\ xpc' = [xpc EXCEPT ![t] = "Lock"]
            /\ rwReaders' = rwReaders \ {t}
            /\ UNCHANGED xConfigCalls
    /\ UNCHANGED <<xOp, rwWriter, xFresh, mutexOwner, inFlight, closed, xWaitOn>>
    /\ LockFrame
\* lines 236-242: the check under the read lock; RUnlock on either branch.
RoleConfigRUnlock(t) ==
    /\ xpc[t] = "check"
    /\ rwReaders' = rwReaders \ {t}
    /\ IF xFresh
       THEN /\ xpc' = [xpc EXCEPT ![t] = AfterGetRoleConfig(t)]
            /\ xConfigCalls' = [xConfigCalls EXCEPT ![t] = @ + 1]
       ELSE /\ xpc' = [xpc EXCEPT ![t] = "Lock"]
            /\ UNCHANGED xConfigCalls
    /\ UNCHANGED <<xOp, rwWriter, xFresh, mutexOwner, inFlight, closed, xWaitOn>>
    /\ LockFrame

\* line 245: roleConfigCache.Lock().
RoleConfigLock(t) ==
    /\ xpc[t] = "Lock"
    /\ rwWriter = None
    /\ rwReaders = {}
    /\ rwWriter' = t
    /\ xpc' = [xpc EXCEPT ![t] = "reload"]
    /\ UNCHANGED <<xOp, xConfigCalls, rwReaders, xFresh, mutexOwner, inFlight, closed, xWaitOn>>
    /\ LockFrame

\* lines 246-296: the second check, the load from Secret Manager, which
\* refreshes the cache or leaves the stale configuration, and the deferred
\* Unlock.
RoleConfigUnlock(t) ==
    /\ xpc[t] = "reload"
    /\ IF xFresh THEN UNCHANGED xFresh
       ELSE \E loaded \in BOOLEAN : xFresh' = loaded
    /\ rwWriter' = None
    /\ xpc' = [xpc EXCEPT ![t] = AfterGetRoleConfig(t)]
    /\ xConfigCalls' = [xConfigCalls EXCEPT ![t] = @ + 1]
    /\ UNCHANGED <<xOp, rwReaders, mutexOwner, inFlight, closed, xWaitOn>>
    /\ LockFrame

\* handleDetokenize, line 806: roleConfigCache.RLock().
LogConfigRLock(t) ==
    /\ xpc[t] = "logRLock"
    /\ rwWriter = None
    /\ rwReaders' = rwReaders \cup {t}
    /\ xpc' = [xpc EXCEPT ![t] = "logRUnlock"]
    /\ UNCHANGED <<xOp, xConfigCalls, rwWriter, xFresh, mutexOwner, inFlight, closed, xWaitOn>>
    /\ LockFrame

\* handleDetokenize, lines 807-816: the log lines and RUnlock; the vault
\* call follows.
LogConfigRUnlock(t) ==
    /\ xpc[t] = "logRUnlock"
    /\ rwReaders' = rwReaders \ {t}
    /\ xpc' = [xpc EXCEPT ![t] = "getBearerToken"]
    /\ UNCHANGED <<xOp, xConfigCalls, rwWriter, xFresh, mutexOwner, inFlight, closed, xWaitOn>>
    /\ LockFrame

\* handleTokenizeValue, lines 570-581: the promise in the registry is
\* joined, or the handler's own promise is stored and the vault call follows.
LoadOrStore(t) ==
    /\ xpc[t] = "LoadOrStore"
    /\ IF inFlight = None
       THEN /\ inFlight' = t
            /\ xpc' = [xpc EXCEPT ![t] = "getBearerToken"]
            /\ UNCHANGED xWaitOn
       ELSE /\ xWaitOn' = [xWaitOn EXCEPT ![t] = inFlight]
            /\ xpc' = [xpc EXCEPT ![t] = "<-p.done"]
            /\ UNCHANGED inFlight
    /\ UNCHANGED <<xOp, xConfigCalls, rwReaders, rwWriter, xFresh, mutexOwner, closed>>
    /\ LockFrame

\* lines 576-577: <-p.done returns once the channel is closed.
ReceiveDone(t) ==
    /\ xpc[t] = "<-p.done"
    /\ xWaitOn[t] \in closed
    /\ xpc' = [xpc EXCEPT ![t] = "done"]
    /\ UNCHANGED <<xOp, xConfigCalls, rwReaders, rwWriter, xFresh, mutexOwner, inFlight, closed,
                   xWaitOn>>
    /\ LockFrame

\* makeSkyflowAPIRequest, line 1372, and getBearerToken, line 919:
\* mutex.Lock().
MutexLock(t) ==
    /\ xpc[t] = "getBearerToken"
    /\ mutexOwner = None
    /\ mutexOwner' = t
    /\ xpc' = [xpc EXCEPT ![t] = "token"]
    /\ UNCHANGED <<xOp, xConfigCalls, rwReaders, rwWriter, xFresh, inFlight, closed, xWaitOn>>
    /\ LockFrame

\* getBearerToken, lines 920-1008: the cache hit, or the token request and
\* its outcome; the deferred Unlock on every return.
MutexUnlock(t) ==
    /\ xpc[t] = "token"
    /\ mutexOwner' = None
    /\ \E err \in BOOLEAN :
         xpc' = [xpc EXCEPT ![t] = IF err THEN "complete" ELSE "makeRequest"]
    /\ UNCHANGED <<xOp, xConfigCalls, rwReaders, rwWriter, xFresh, inFlight, closed, xWaitOn>>
    /\ LockFrame

\* makeSkyflowAPIRequest, line 1382: client.makeRequest returns.
MakeRequest(t) ==
    /\ xpc[t] = "makeRequest"
    /\ xpc' = [xpc EXCEPT ![t] = "complete"]
    /\ UNCHANGED <<xOp, xConfigCalls, rwReaders, rwWriter, xFresh, mutexOwner, inFlight, closed,
                   xWaitOn>>
    /\ LockFrame

\* The handler returns: handleTokenizeValue through completeTokenPromise,
\* lines 1350-1356, which closes the channel and deletes the entry.
CompleteRequest(t) ==
    /\ xpc[t] = "complete"
    /\ IF xOp[t] = OpTokenizeValue
       THEN /\ closed' = closed \cup {t}
            /\ inFlight' = None
       ELSE UNCHANGED <<closed, inFlight>>
    /\ xpc' = [xpc EXCEPT ![t] = "done"]
    /\ UNCHANGED <<xOp, xConfigCalls, rwReaders, rwWriter, xFresh, mutexOwner, xWaitOn>>
    /\ LockFrame

\* roleConfigCacheDuration passes: the cached configuration is stale.
CacheExpires ==
    /\ xFresh
    /\ xFresh' = FALSE
    /\ UNCHANGED <<xOp, xpc, xConfigCalls, rwReaders, rwWriter, mutexOwner, inFlight, closed,
                   xWaitOn>>
    /\ LockFrame

HandlerRuns(t) ==
    \/ RoleConfigRLock(t)
    \/ RoleConfigRUnlock(t)
    \/ RoleConfigLock(t)
    \/ RoleConfigUnlock(t)
    \/ LogConfigRLock(t)
    \/ LogConfigRUnlock(t)
    \/ LoadOrStore(t)
    \/ ReceiveDone(t)
    \/ MutexLock(t)
    \/ MutexUnlock(t)
    \/ MakeRequest(t)
    \/ CompleteRequest(t)

NextLocks ==
    \/ \E t \in Handlers : HandlerRuns(t)
    \/ CacheExpires

\* Every goroutine keeps running.
FairLocks == \A t \in Handlers : WF_vars(HandlerRuns(t))

(***************************************************************************)
(* Claims about the locks                                                  *)
(***************************************************************************)
HoldsConfigLock(t) == t \in rwReaders \/ rwWriter = t
HoldsMutex(t) == mutexOwner = t

\* The handlers a blocked handler waits for.
WaitsFor(t) ==
    CASE xpc[t] \in {"getRoleConfig", "logRLock"} -> {rwWriter} \ {None}
      [] xpc[t] = "Lock" -> (rwReaders \cup {rwWriter}) \ {None}
      [] xpc[t] = "getBearerToken" -> {mutexOwner} \ {None}
      [] xpc[t] = "<-p.done" -> {xWaitOn[t]} \ closed
      [] OTHER -> {}

RECURSIVE WaitsBehind(_, _)
WaitsBehind(S, n) ==
    IF n = 0 THEN S
    ELSE WaitsBehind(S \cup UNION {WaitsFor(u) : u \in S}, n - 1)

\* C36: a handler never holds the lock of the configuration cache and the
\* mutex of the credential cache together, and holds neither while it waits
\* for a promise; no handler waits, directly or through others, for itself;
\* every blocked handler waits behind a handler that is not blocked and has
\* not returned; every handler returns.
C36_NoNestedLocksNoCycle ==
    /\ [](\A t \in Handlers : ~(HoldsConfigLock(t) /\ HoldsMutex(t)))
    /\ [](\A t \in Handlers :
            xpc[t] = "<-p.done" => (~HoldsConfigLock(t) /\ ~HoldsMutex(t)))
    /\ [](\A t \in Handlers : t \notin WaitsBehind(WaitsFor(t), NumHandlers))
    /\ [](\A t \in Handlers :
            WaitsFor(t) # {} =>
                \E u \in WaitsBehind(WaitsFor(t), NumHandlers) :
                    WaitsFor(u) = {} /\ xpc[u] # "done")
    /\ \A t \in Handlers : <>(xpc[t] = "done")

\* A handler waits for the promise of a handler that reloaded the
\* configuration under the write lock and now holds the mutex during its
\* token request.
C36_Witness ==
    \E t, u \in Handlers :
        /\ xpc[t] = "<-p.done" /\ WaitsFor(t) = {u}
        /\ xpc[u] = "token" /\ HoldsMutex(u) /\ WaitsFor(u) = {}
        /\ ~xFresh

(***************************************************************************)
(* Claims about the authorization of handleRequest                         *)
(***************************************************************************)
\* C38: with the operationRoles of the source hasRequiredRole grants every
\* operation to every list of caller roles under every configuration, so no
\* request is answered with 403; a request with an operation the service
\* does not know is answered with 400 only after getUserRoles and
\* getRoleConfig were called and the role check passed.
C38_AuthorizationAlwaysPasses ==
    /\ hStatus # 403
    /\ \A i \in 1..Len(hTrace) : hTrace[i] # "hasRequiredRole: false"
    /\ hpc = "roles" =>
          \A got \in UserRolesOutcomes, config \in RoleConfigs :
              hasRequiredRole(got.roles, RequiredRolesOf(hReq.operation), config)[2]
    /\ (hpc = "done" /\ hReq.operation \notin DOMAIN operationRoles /\ hReq.operation # ""
            /\ hReq.SessionUser # "") =>
          \/ hStatus = 500 /\ hTrace = << "getUserRoles" >>
          \/ hStatus = 400
               /\ hTrace = << "getUserRoles", "getRoleConfig", "hasRequiredRole: true" >>

\* A request with an unknown operation was answered with 400 after its
\* roles were fetched and the configuration was read.
C38_Witness ==
    /\ hpc = "done"
    /\ hReq.operation = "tokenize"
    /\ hStatus = 400
    /\ hTrace = << "getUserRoles", "getRoleConfig", "hasRequiredRole: true" >>
    /\ \E i \in 1..Len(hLog) : hLog[i] = Printf(521, << "gX", "g1" >>)

(***************************************************************************)
(* Claims about the UPDATE statements and the token maps                   *)
(***************************************************************************)
\* The original values of the CASE branches of a statement.
CaseOriginals(stmt) == {stmt.cases[i][1] : i \in 1..Len(stmt.cases)}
StatementsOf(column) == {k \in 1..Len(tUpdates) : tUpdates[k].stmt.column = column}

\* C39: every statement names in its IN list exactly the originals of its
\* CASE branches, each once and with the token of the map, and holds at most
\* bigqueryBatchSize of them; no statement is issued for a column whose map
\* is empty; after a successful run every original that has a token is in
\* exactly one statement of its column, and every statement was executed.
C39_OneUpdatePerTokenizedValue ==
    /\ \A k \in 1..Len(tUpdates) :
          LET stmt == tUpdates[k].stmt IN
          /\ CaseOriginals(stmt) = stmt.inList
          /\ Cardinality(stmt.inList) = Len(stmt.cases)
          /\ Len(stmt.cases) \in 1..tBqBatch
          /\ \A i \in 1..Len(stmt.cases) :
                /\ stmt.cases[i][1] \in DOMAIN tMaps[stmt.column]
                /\ stmt.cases[i][2] = tMaps[stmt.column][stmt.cases[i][1]]
    /\ \A i \in 1..Len(columnList) :
          LET column == columnList[i] IN
          /\ (tMaps # <<>> /\ DOMAIN tMaps[column] = {}) => StatementsOf(column) = {}
          /\ \A v \in UNION {CaseOriginals(tUpdates[k].stmt) : k \in StatementsOf(column)} :
                Cardinality({k \in StatementsOf(column) :
                               v \in CaseOriginals(tUpdates[k].stmt)}) = 1
          /\ (tpc = "done" /\ tRet[2] = NoErr) =>
                /\ \A k \in StatementsOf(column) : tUpdates[k].ok
                /\ UNION {CaseOriginals(tUpdates[k].stmt) : k \in StatementsOf(column)}
                      = DOMAIN tMaps[column]

\* A successful run wrote the two tokenized values of the first column with
\* two statements of one value each, and nothing for the second column,
\* whose values were skipped.
C39_Witness ==
    /\ tpc = "done"
    /\ tRet[2] = NoErr
    /\ tBqBatch = 1
    /\ Cardinality(DOMAIN tMaps["c1"]) = 2
    /\ DOMAIN tMaps["c2"] = {}
    /\ Len(tUpdates) = 2
    /\ \E r \in TableRows : tData[r]["c2"] # <<>>

\* C40: processBatch stores the token of response record i under the column
\* and the original value of batch item i, writes only to the maps of the
\* requested columns, and never reads a batch position outside the batch,
\* whatever number of records the vault returns.
C40_ResponsePairedInRange ==
    /\ tpc # "panic"
    /\ tMaps # <<>> =>
          /\ DOMAIN tMaps = Range(columnList)
          /\ \A column \in DOMAIN tMaps : \A v \in DOMAIN tMaps[column] :
                /\ tMaps[column][v] = TokenFor(v)
                /\ \E k \in 1..Len(tSent) : \E i \in 1..Len(tSent[k]) :
                      tSent[k][i] = [pii |-> v, Table |-> column]

(***************************************************************************)
(* Specifications                                                          *)
(***************************************************************************)
IdleConfig ==
    /\ cache = <<>>
    /\ writer = None
    /\ now = 0
    /\ alive = TRUE
    /\ cpc = <<>>
    /\ ret = <<>>
    /\ data = <<>>
    /\ loads = 0
    /\ fetches = 0
    /\ tookLock = <<>>
    /\ fetchedBy = <<>>
    /\ failedAt = <<>>

IdleResolve ==
    /\ rUserRoles = <<>>
    /\ rRequired = <<>>
    /\ rConfig = <<>>
    /\ rResult = NoResult

IdleCred ==
    /\ bearerTokenCache = <<>>
    /\ mutex = None
    /\ credentials = "nil"
    /\ kpc = <<>>
    /\ kArgs = <<>>
    /\ kKey = <<>>
    /\ kSnap = <<>>
    /\ kLast = <<>>
    /\ kStored = {}
    /\ kCalls = 0

IdleBatch ==
    /\ bKind = ""
    /\ bItems = <<>>
    /\ bArg = 0
    /\ bSize = 0
    /\ bpc = "idle"
    /\ bI = 0
    /\ bResults = <<>>
    /\ bCalls = <<>>
    /\ bEnvs = <<>>
    /\ bOuts = <<>>
    /\ bApplied = <<>>
    /\ bRet = NoResult

IdleSize ==
    /\ eEnv = <<>>
    /\ eSizes = <<>>

IdleTable ==
    /\ tData = <<>>
    /\ tTable = <<>>
    /\ tSkyBatch = 0
    /\ tBqBatch = 0
    /\ tpc = "idle"
    /\ tRecords = <<>>
    /\ tI = 0
    /\ tMaps = <<>>
    /\ tSent = <<>>
    /\ tColsLeft = {}
    /\ tColumn = ""
    /\ tPairs = <<>>
    /\ tUpdates = <<>>
    /\ tRet = NoResult

IdleRequest ==
    /\ hReq = <<>>
    /\ hpc = "idle"
    /\ hTrace = <<>>
    /\ hLog = <<>>
    /\ hStatus = None

IdleLocks ==
    /\ xOp = <<>>
    /\ xpc = <<>>
    /\ xConfigCalls = <<>>
    /\ rwReaders = {}
    /\ rwWriter = None
    /\ xFresh = TRUE
    /\ mutexOwner = None
    /\ inFlight = None
    /\ closed = {}
    /\ xWaitOn = <<>>

InitD == InitDedup /\ IdleConfig /\ IdleResolve /\ IdleCred /\ IdleBatch /\ IdleSize /\ IdleTable /\ IdleRequest /\ IdleLocks

InitC == IdleDedup /\ InitConfig /\ IdleResolve /\ IdleCred /\ IdleBatch /\ IdleSize /\ IdleTable /\ IdleRequest /\ IdleLocks

SpecConfig == InitC /\ [][NextConfig]_vars

InitR == IdleDedup /\ IdleConfig /\ InitResolve /\ IdleCred /\ IdleBatch /\ IdleSize /\ IdleTable /\ IdleRequest /\ IdleLocks

SpecResolve == InitR /\ [][NextResolve]_vars

SpecDedup == InitD /\ [][NextDedup]_vars

InitF == InitD /\ \A r \in Reqs : value[r] = "a"

SpecInFlight == InitF /\ [][NextInFlight]_vars /\ FairHandlers

InitK == IdleDedup /\ IdleConfig /\ IdleResolve /\ InitCred /\ IdleBatch /\ IdleSize /\ IdleTable /\ IdleRequest /\ IdleLocks

SpecCred == InitK /\ [][NextCred]_vars

InitB == IdleDedup /\ IdleConfig /\ IdleResolve /\ IdleCred /\ InitBatch /\ IdleSize /\ IdleTable /\ IdleRequest /\ IdleLocks

SpecBatch == InitB /\ [][NextBatch]_vars

\* batchProcessor runs on the goroutine of its request, which keeps running.
SpecBatchLive == InitB /\ [][NextBatch]_vars /\ WF_vars(NextBatch)

InitS == IdleDedup /\ IdleConfig /\ IdleResolve /\ IdleCred /\ IdleBatch /\ InitSize /\ IdleTable /\ IdleRequest /\ IdleLocks

SpecSize == InitS /\ [][NextSize]_vars

InitT == IdleDedup /\ IdleConfig /\ IdleResolve /\ IdleCred /\ IdleBatch /\ IdleSize /\ InitTable /\ IdleRequest /\ IdleLocks

SpecTable == InitT /\ [][NextTable]_vars

InitH == IdleDedup /\ IdleConfig /\ IdleResolve /\ IdleCred /\ IdleBatch /\ IdleSize /\ IdleTable /\ InitRequest /\ IdleLocks

SpecRequest == InitH /\ [][NextRequest]_vars

InitL == IdleDedup /\ IdleConfig /\ IdleResolve /\ IdleCred /\ IdleBatch /\ IdleSize /\ IdleTable /\ IdleRequest /\ InitLocks

SpecLocks == InitL /\ [][NextLocks]_vars /\ FairLocks

====
